---- MODULE Spec2Model ----
(***************************************************************************)
(* Model of the batch-wise backend: CSV ingestion into dynamic tables, the *)
(* unified view builder and the anomaly scorer.                            *)
(*                                                                         *)
(* Text (file names, CSV headers, column names) is a sequence of           *)
(* one-character strings, so that sanitisation, lower-casing, substring    *)
(* tests and sorting are computed character by character as the code does. *)
(***************************************************************************)
EXTENDS Integers, Sequences, FiniteSets, TLC

\* ------------------------------------------------------------------ text

\* The characters of the model in code-point order (Python compares str by
\* code point): space ( ) - . 0-9 A-Z _ a-z
CodePoints ==
  << " ", "'", "(", ")", "-", ".",
     "0", "1", "2", "3", "4", "5", "6", "7", "8", "9",
     "A", "B", "C", "D", "E", "F", "G", "H", "I", "J", "K", "L", "M",
     "N", "O", "P", "Q", "R", "S", "T", "U", "V", "W", "X", "Y", "Z",
     "_",
     "a", "b", "c", "d", "e", "f", "g", "h", "i", "j", "k", "l", "m",
     "n", "o", "p", "q", "r", "s", "t", "u", "v", "w", "x", "y", "z" >>

\* ord() of every character, tabulated once
OrdTable ==
  [c \in {CodePoints[i] : i \in DOMAIN CodePoints} |->
     CHOOSE i \in DOMAIN CodePoints : CodePoints[i] = c]

Ord(c) == OrdTable[c]

IsUpper(c) == Ord(c) >= Ord("A") /\ Ord(c) <= Ord("Z")

IsLower(c) == Ord(c) >= Ord("a") /\ Ord(c) <= Ord("z")

IsDigit(c) == Ord(c) >= Ord("0") /\ Ord(c) <= Ord("9")

\* str.lower() on one character
LowerChar(c) == IF IsUpper(c) THEN CodePoints[Ord(c) - Ord("A") + Ord("a")] ELSE c

\* str.lower()
Lower(s) == [i \in DOMAIN s |-> LowerChar(s[i])]

\* the character class [a-zA-Z0-9_] of the sanitising regular expressions
IsWordChar(c) == IsUpper(c) \/ IsLower(c) \/ IsDigit(c) \/ c = "_"

\* re.sub(r'[^a-zA-Z0-9_]', '_', s)
SubNonWord(s) == [i \in DOMAIN s |-> IF IsWordChar(s[i]) THEN s[i] ELSE "_"]

\* pattern in s (Python substring test)
Contains(s, pattern) ==
  \E i \in 0..(Len(s) - Len(pattern)) :
    \A j \in 1..Len(pattern) : s[i + j] = pattern[j]

\* s.endswith(suffix)
EndsWith(s, suffix) ==
  /\ Len(s) >= Len(suffix)
  /\ \A j \in 1..Len(suffix) : s[Len(s) - Len(suffix) + j] = suffix[j]

\* a < b in Python's string order (lexicographic by code point)
StrLess(a, b) ==
  \E k \in 1..(Len(b)) :
    /\ k <= Len(a) + 1
    /\ \A j \in 1..(k - 1) : a[j] = b[j]
    /\ \/ k = Len(a) + 1
       \/ k <= Len(a) /\ Ord(a[k]) < Ord(b[k])

\* sorted(list(S)) for a set of strings
RECURSIVE SortedSeq(_)
SortedSeq(S) ==
  IF S = {} THEN << >>
  ELSE LET m == CHOOSE x \in S : \A y \in S \ {x} : StrLess(x, y)
       IN  << m >> \o SortedSeq(S \ {m})

\* the set of elements of a sequence
Range(s) == {s[i] : i \in DOMAIN s}

\* ------------------------------------------------------------- constants

S_id == << "i", "d" >>

S_upload_timestamp == << "u", "p", "l", "o", "a", "d", "_", "t", "i", "m", "e", "s", "t", "a", "m", "p" >>

S_anomaly_alert == << "a", "n", "o", "m", "a", "l", "y", "_", "a", "l", "e", "r", "t" >>

S_csv_prefix == << "c", "s", "v", "_" >>

S_dot_csv == << ".", "c", "s", "v" >>

S_date == << "d", "a", "t", "e" >>

S_time == << "t", "i", "m", "e" >>

S_timestamp == << "t", "i", "m", "e", "s", "t", "a", "m", "p" >>

S_Energy_kWh == << "E", "n", "e", "r", "g", "y", "_", "k", "W", "h" >>

S_OutputWeight_kg == << "O", "u", "t", "p", "u", "t", "W", "e", "i", "g", "h", "t", "_", "k", "g" >>

S_InputWeight_kg == << "I", "n", "p", "u", "t", "W", "e", "i", "g", "h", "t", "_", "k", "g" >>

S_RoomTemp_C == << "R", "o", "o", "m", "T", "e", "m", "p", "_", "C" >>

S_kg_co2_per_kwh == << "k", "g", "_", "c", "o", "2", "_", "p", "e", "r", "_", "k", "w", "h" >>

S_batchid == << "b", "a", "t", "c", "h", "i", "d" >>

numeric_patterns ==
  { << "k", "w", "h" >>,
    << "e", "n", "e", "r", "g", "y" >>,
    << "w", "e", "i", "g", "h", "t" >>,
    << "t", "e", "m", "p" >>,
    << "t", "e", "m", "p", "e", "r", "a", "t", "u", "r", "e" >>,
    << "k", "g" >>,
    << "p", "e", "r", "_", "k", "g" >>,
    << "l", "o", "s", "s" >>,
    << "p", "c", "t" >>,
    << "p", "e", "r", "c", "e", "n", "t" >>,
    << "c", "o", "2" >>,
    << "p", "r", "e", "s", "s", "u", "r", "e" >>,
    << "h", "u", "m", "i", "d", "i", "t", "y" >>,
    << "s", "p", "e", "e", "d" >>,
    << "r", "a", "t", "e" >>,
    << "v", "a", "l", "u", "e" >>,
    << "c", "o", "u", "n", "t" >>,
    << "s", "c", "o", "r", "e" >>,
    << "f", "a", "c", "t", "o", "r" >> }

column_mapping ==
  << << << "E", "n", "e", "r", "g", "y", " ", "C", "o", "n", "s", "u", "m", "p", "t", "i", "o", "n", " ", "(", "k", "W", "h", ")" >>,
        << "E", "n", "e", "r", "g", "y", "_", "k", "W", "h" >> >>,
     << << "E", "n", "e", "r", "g", "y", "_", "C", "o", "n", "s", "u", "m", "p", "t", "i", "o", "n", "_", "_", "k", "W", "h", "_" >>,
        << "E", "n", "e", "r", "g", "y", "_", "k", "W", "h" >> >>,
     << << "e", "n", "e", "r", "g", "y", "_", "c", "o", "n", "s", "u", "m", "p", "t", "i", "o", "n", "_", "_", "k", "w", "h", "_" >>,
        << "E", "n", "e", "r", "g", "y", "_", "k", "W", "h" >> >>,
     << << "O", "u", "t", "p", "u", "t", "W", "e", "i", "g", "h", "t", "_", "k", "g" >>,
        << "O", "u", "t", "p", "u", "t", "W", "e", "i", "g", "h", "t", "_", "k", "g" >> >>,
     << << "o", "u", "t", "p", "u", "t", "w", "e", "i", "g", "h", "t", "_", "k", "g" >>,
        << "O", "u", "t", "p", "u", "t", "W", "e", "i", "g", "h", "t", "_", "k", "g" >> >>,
     << << "I", "n", "p", "u", "t", "W", "e", "i", "g", "h", "t", "_", "k", "g" >>,
        << "I", "n", "p", "u", "t", "W", "e", "i", "g", "h", "t", "_", "k", "g" >> >>,
     << << "i", "n", "p", "u", "t", "w", "e", "i", "g", "h", "t", "_", "k", "g" >>,
        << "I", "n", "p", "u", "t", "W", "e", "i", "g", "h", "t", "_", "k", "g" >> >>,
     << << "R", "o", "o", "m", "T", "e", "m", "p", "_", "C" >>,
        << "R", "o", "o", "m", "T", "e", "m", "p", "_", "C" >> >>,
     << << "r", "o", "o", "m", "t", "e", "m", "p", "_", "c" >>,
        << "R", "o", "o", "m", "T", "e", "m", "p", "_", "C" >> >>,
     << << "R", "o", "o", "m", "T", "e", "m", "p", "e", "r", "a", "t", "u", "r", "e", "_", "C" >>,
        << "R", "o", "o", "m", "T", "e", "m", "p", "_", "C" >> >>,
     << << "r", "o", "o", "m", "t", "e", "m", "p", "e", "r", "a", "t", "u", "r", "e", "_", "c" >>,
        << "R", "o", "o", "m", "T", "e", "m", "p", "_", "C" >> >> >>

\* required_features of detect_and_update
S_Energy_per_kg == << "E", "n", "e", "r", "g", "y", "_", "p", "e", "r", "_", "k", "g" >>

S_Yield_loss_pct == << "Y", "i", "e", "l", "d", "_", "l", "o", "s", "s", "_", "p", "c", "t" >>

S_CO2_per_kg == << "C", "O", "2", "_", "p", "e", "r", "_", "k", "g" >>

S_Energy_x_Temp == << "E", "n", "e", "r", "g", "y", "_", "x", "_", "T", "e", "m", "p" >>

required_features ==
  << S_Energy_kWh, S_Energy_per_kg, S_Yield_loss_pct,
     S_RoomTemp_C, S_CO2_per_kg, S_Energy_x_Temp >>

\* -------------------------------------------------------- name sanitising

\* name.replace(pattern, '') : every non-overlapping occurrence, left to right
RECURSIVE RemoveAll(_, _)
RemoveAll(s, pattern) ==
  IF Len(s) < Len(pattern) \/ Len(s) = 0 THEN s
  ELSE IF SubSeq(s, 1, Len(pattern)) = pattern
       THEN RemoveAll(SubSeq(s, Len(pattern) + 1, Len(s)), pattern)
       ELSE << s[1] >> \o RemoveAll(Tail(s), pattern)

\* re.sub(r'_+', '_', name)
RECURSIVE CollapseUnderscores(_)
CollapseUnderscores(s) ==
  IF Len(s) <= 1 THEN s
  ELSE IF s[1] = "_" /\ s[2] = "_" THEN CollapseUnderscores(Tail(s))
       ELSE << s[1] >> \o CollapseUnderscores(Tail(s))

\* name.strip('_')
RECURSIVE StripUnderscores(_)
StripUnderscores(s) ==
  IF Len(s) = 0 THEN s
  ELSE IF s[1] = "_" THEN StripUnderscores(Tail(s))
  ELSE IF s[Len(s)] = "_" THEN StripUnderscores(SubSeq(s, 1, Len(s) - 1))
  ELSE s

\* sanitize_table_name: the name part and the clock reading that stands for
\* datetime.now() at millisecond resolution ('%Y%m%d_%H%M%S_%f'[:-3]); the
\* suffix has a fixed width, so the pair determines the string.
sanitize_table_name(filename, now) ==
  LET n1 == RemoveAll(filename, S_dot_csv)
      n2 == SubNonWord(n1)
      n3 == CollapseUnderscores(n2)
      n4 == StripUnderscores(n3)
      n5 == IF Len(n4) > 0 /\ IsDigit(n4[1]) THEN S_csv_prefix \o n4 ELSE n4
  IN  [name |-> Lower(S_csv_prefix \o n5), ts |-> now]

\* the physical column name of a CSV header, as create_dynamic_table and
\* create_unified_view compute it
SafeCol(col_name) ==
  LET safe_col == Lower(SubNonWord(col_name))
  IN  IF Lower(col_name) \in {S_id, S_upload_timestamp}
      THEN S_csv_prefix \o safe_col
      ELSE safe_col

\* the column name the row loader writes a header's values to
LoaderCol(col) ==
  IF col \in {S_id, S_upload_timestamp} THEN col
  ELSE LET safe_col == Lower(SubNonWord(col))
       IN  IF Lower(col) \in {S_id, S_upload_timestamp}
           THEN S_csv_prefix \o safe_col
           ELSE safe_col

\* ------------------------------------------------------------ CSV headers

H_batch_no == << "B", "a", "t", "c", "h", " ", "N", "o", "." >>

H_batch_no_ == << "b", "a", "t", "c", "h", "_", "n", "o", "_" >>

H_energy == << "E", "n", "e", "r", "g", "y", " ", "C", "o", "n", "s", "u", "m", "p", "t", "i", "o", "n", " ", "(", "k", "W", "h", ")" >>

H_notes == << "N", "o", "t", "e", "s" >>

H_temp_time == << "T", "e", "m", "p", " ", "T", "i", "m", "e" >>

H_weight == << "W", "e", "i", "g", "h", "t" >>

H_flag == << "F", "l", "a", "g" >>

H_ID == << "I", "D" >>

H_Upload_Timestamp == << "U", "p", "l", "o", "a", "d", "_", "T", "i", "m", "e", "s", "t", "a", "m", "p" >>

H_upload_timestamp_spaced == << "U", "p", "l", "o", "a", "d", " ", "T", "i", "m", "e", "s", "t", "a", "m", "p" >>

H_Anomaly_Alert == << "A", "n", "o", "m", "a", "l", "y", " ", "A", "l", "e", "r", "t" >>

\* the headers of a batch-records file the scorer can score
BatchHeaders == << H_energy, S_OutputWeight_kg, S_InputWeight_kg, S_RoomTemp_C >>

\* every header a CSV file of the model carries
Headers ==
  { H_batch_no, H_batch_no_, H_energy, H_notes, H_temp_time, H_weight, H_flag,
    S_OutputWeight_kg, S_InputWeight_kg, S_RoomTemp_C, S_Energy_kWh,
    S_id, H_ID, S_upload_timestamp, H_Upload_Timestamp, H_upload_timestamp_spaced,
    S_anomaly_alert, H_Anomaly_Alert }

\* SafeCol on every header, computed once
safe_col_of == [h \in Headers |-> SafeCol(h)]

\* LoaderCol on every name of the loader's column list, computed once
loader_col_of == [h \in Headers \cup {S_upload_timestamp} |-> LoaderCol(h)]

\* every physical column name a table of the model can have
ColumnNames ==
  {S_id, S_upload_timestamp, S_anomaly_alert}
    \cup {safe_col_of[h] : h \in Headers} \cup {loader_col_of[h] : h \in DOMAIN loader_col_of}

\* Python's string order on the headers and the column names, computed once
name_order == SortedSeq(Headers \cup ColumnNames)

\* sorted(list(S)) for a set S of headers or column names
Sorted(S) == SelectSeq(name_order, LAMBDA c : c \in S)

\* ----------------------------------------------------------------- values

\* A value of a table cell or of a data-frame cell. Numbers are exact
\* rationals n/d with d > 0; "nan" is SQL NULL / None / NaN; "txt" is a
\* string; "ts" is a point in time.
Rat(n, d) == [k |-> "num", n |-> n, d |-> d, s |-> ""]

Num(n) == Rat(n, 1)

NaN == [k |-> "nan", n |-> 0, d |-> 1, s |-> ""]

Txt(s) == [k |-> "txt", n |-> 0, d |-> 1, s |-> s]

Ts(t) == [k |-> "ts", n |-> t, d |-> 1, s |-> ""]

\* pd.notnull(v)
NotNull(v) == v.k # "nan"

\* a / b on floats; x/0 is +-inf or NaN, and the feature engineer's final
\* replace([inf, -inf], nan) turns every such result into NaN
Div(a, b) ==
  IF a.k # "num" \/ b.k # "num" \/ b.n = 0 THEN NaN
  ELSE IF b.n > 0 THEN Rat(a.n * b.d, a.d * b.n)
  ELSE Rat(0 - (a.n * b.d), 0 - (a.d * b.n))

Mul(a, b) == IF a.k # "num" \/ b.k # "num" THEN NaN ELSE Rat(a.n * b.n, a.d * b.d)

Sub(a, b) ==
  IF a.k # "num" \/ b.k # "num" THEN NaN ELSE Rat(a.n * b.d - b.n * a.d, a.d * b.d)

\* v > c for an integer c; a comparison with NaN is False
GT(v, c) == v.k = "num" /\ v.n > c * v.d

\* row.get(key, default)
RowGet(row, key, default) == IF key \in DOMAIN row THEN row[key] ELSE default

\* --------------------------------------------------- severity classification

S_anomaly_flag == << "a", "n", "o", "m", "a", "l", "y", "_", "f", "l", "a", "g" >>

S_anomaly_score == << "a", "n", "o", "m", "a", "l", "y", "_", "s", "c", "o", "r", "e" >>

S_severity == << "s", "e", "v", "e", "r", "i", "t", "y" >>

\* the hard-rule thresholds of determine_severity
ENERGY_KWH_LIMIT == 1500

ENERGY_PER_KG_LIMIT == 15

YIELD_LOSS_PCT_LIMIT == 10

CO2_PER_KG_LIMIT == 6

\* a mutation of determine_severity: thresholds compared with >= instead of >
determine_severity_inclusive(row) ==
  LET GE(v, c) == v.k = "num" /\ v.n >= c * v.d
  IN  IF \/ GE(RowGet(row, S_Energy_kWh, Num(0)), ENERGY_KWH_LIMIT)
         \/ GE(RowGet(row, S_Energy_per_kg, Num(0)), ENERGY_PER_KG_LIMIT)
         \/ GE(RowGet(row, S_Yield_loss_pct, Num(0)), YIELD_LOSS_PCT_LIMIT)
         \/ GE(RowGet(row, S_CO2_per_kg, Num(0)), CO2_PER_KG_LIMIT)
      THEN "RED"
      ELSE IF RowGet(row, S_anomaly_flag, NaN) = Num(-1) THEN "AMBER"
      ELSE "GREEN"

\* a mutation of determine_severity: a row already marked AMBER escalates
determine_severity_escalating(row) ==
  IF \/ GT(RowGet(row, S_Energy_kWh, Num(0)), ENERGY_KWH_LIMIT)
     \/ GT(RowGet(row, S_Energy_per_kg, Num(0)), ENERGY_PER_KG_LIMIT)
     \/ GT(RowGet(row, S_Yield_loss_pct, Num(0)), YIELD_LOSS_PCT_LIMIT)
     \/ GT(RowGet(row, S_CO2_per_kg, Num(0)), CO2_PER_KG_LIMIT)
     \/ RowGet(row, S_anomaly_alert, NaN) = Txt("AMBER")
  THEN "RED"
  ELSE IF RowGet(row, S_anomaly_flag, NaN) = Num(-1) THEN "AMBER"
  ELSE "GREEN"

\* AnomalyDetectionService.determine_severity
determine_severity(row) ==
  LET energy_rule == GT(RowGet(row, S_Energy_kWh, Num(0)), ENERGY_KWH_LIMIT)
      efficiency_rule == GT(RowGet(row, S_Energy_per_kg, Num(0)), ENERGY_PER_KG_LIMIT)
      yield_rule == GT(RowGet(row, S_Yield_loss_pct, Num(0)), YIELD_LOSS_PCT_LIMIT)
      co2_rule == GT(RowGet(row, S_CO2_per_kg, Num(0)), CO2_PER_KG_LIMIT)
      is_model_anomaly == RowGet(row, S_anomaly_flag, NaN) = Num(-1)
  IN  IF energy_rule \/ efficiency_rule \/ yield_rule \/ co2_rule THEN "RED"
      ELSE IF is_model_anomaly THEN "AMBER"
      ELSE "GREEN"

\* ------------------------------------------------------------- CSV input

\* A CSV cell is the string the reader yields: Num(n) is the decimal numeral
\* of the integer n, Txt(s) any other string (Txt("") the empty cell).
null_tokens == {"", "NULL", "null", "None"}

bool_words == {"true", "false", "yes", "no", "y", "n"}

date_words == {"2024-01-01", "2024-01-02"}

\* the value csv.DictReader gives a header the data row has no field for
\* (a row shorter than the header): None
Missing == [k |-> "none", n |-> 0, d |-> 1, s |-> ""]

\* s.strip() for the words of the cells
StripWord(s) ==
  CASE s = " " -> ""
    [] s = " ok " -> "ok"
    [] s = " NULL" -> "NULL"
    [] OTHER -> s

\* value.strip() of a cell
Stripped(v) == IF v.k = "txt" THEN [v EXCEPT !.s = StripWord(v.s)] ELSE v

\* s.replace("'", "''") for the words of the cells
EscapeWord(s) == IF s = "it's" THEN "it''s" ELSE s

\* the string a quoted SQL literal denotes: '' read back as '
UnescapeWord(s) == IF s = "it''s" THEN "it's" ELSE s

\* v and v.strip() not in ['', 'NULL', 'null', 'None']
IsCleanValue(v) ==
  /\ v # Missing
  /\ v # Txt("")
  /\ ~(v.k = "txt" /\ StripWord(v.s) \in null_tokens)

\* s.lower() for the words of the cells
LowerWord(s) ==
  CASE s = "Yes" -> "yes"
    [] s = "TRUE" -> "true"
    [] s = "NULL" -> "null"
    [] s = "None" -> "none"
    [] OTHER -> s

\* v.lower() in bool_values
IsBoolValue(v) ==
  \/ v.k = "txt" /\ LowerWord(v.s) \in bool_words
  \/ v.k = "num" /\ v.d = 1 /\ v.n \in {0, 1}

\* float(v) succeeds
ParsesFloat(v) == v.k = "num"

\* dateutil.parser.parse(v) succeeds: an ISO date, or a bare day number that
\* every month has
ParsesDate(v) ==
  \/ v.k = "txt" /\ v.s \in date_words
  \/ v.k = "num" /\ v.d = 1 /\ v.n \in 1..28

\* a mutation of infer_column_type: the float rule tried before the boolean
\* rule
infer_column_type_float_first(sample_values, col_name) ==
  LET col_lower == Lower(col_name)
      kept == SelectSeq(sample_values, IsCleanValue)
      clean_values == [i \in DOMAIN kept |-> Stripped(kept[i])]
  IN  IF Contains(col_lower, S_date) \/ Contains(col_lower, S_time) THEN "TIMESTAMP"
      ELSE IF Len(sample_values) = 0 THEN "TEXT"
      ELSE IF Len(clean_values) = 0 THEN "TEXT"
      ELSE IF \A i \in DOMAIN clean_values : ParsesFloat(clean_values[i]) THEN "FLOAT"
      ELSE IF \A i \in DOMAIN clean_values : IsBoolValue(clean_values[i]) THEN "BOOLEAN"
      ELSE IF \A i \in DOMAIN clean_values : i <= 5 => ParsesDate(clean_values[i])
           THEN "TIMESTAMP"
      ELSE "TEXT"

\* infer_column_type
infer_column_type(sample_values, col_name) ==
  LET col_lower == Lower(col_name)
      kept == SelectSeq(sample_values, IsCleanValue)
      clean_values == [i \in DOMAIN kept |-> Stripped(kept[i])]
  IN  IF Contains(col_lower, S_date) \/ Contains(col_lower, S_time) THEN "TIMESTAMP"
      ELSE IF Len(sample_values) = 0 THEN "TEXT"
      ELSE IF Len(clean_values) = 0 THEN "TEXT"
      ELSE IF \A i \in DOMAIN clean_values : IsBoolValue(clean_values[i]) THEN "BOOLEAN"
      ELSE IF \A i \in DOMAIN clean_values : ParsesFloat(clean_values[i]) THEN "FLOAT"
      ELSE IF \A i \in DOMAIN clean_values : i <= 5 => ParsesDate(clean_values[i])
           THEN "TIMESTAMP"
      ELSE "TEXT"

\* the sample window of process_csv_upload: rows[:20]
SAMPLE_ROWS == 20

\* columns_info of process_csv_upload: header -> inferred type
ColumnsInfo(csv) ==
  [h \in Range(csv.fieldnames) |->
     infer_column_type(
       [i \in 1..(IF Len(csv.rows) < SAMPLE_ROWS THEN Len(csv.rows) ELSE SAMPLE_ROWS)
          |-> csv.rows[i][h]],
       h)]

\* ------------------------------------------------------ table provisioning

\* the SQL type create_dynamic_table declares for an inferred type
SqlType(col_type) ==
  CASE col_type = "INTEGER" -> "INTEGER"
    [] col_type = "FLOAT" -> "DOUBLE PRECISION"
    [] col_type = "BOOLEAN" -> "BOOLEAN"
    [] col_type = "TIMESTAMP" -> "TIMESTAMP"
    [] col_type = "DATE" -> "DATE"
    [] OTHER -> "TEXT"

\* the column declarations of the CREATE TABLE statement, as <<name, type>>,
\* in the order create_dynamic_table emits them (user columns in sorted order
\* here: the order among them has no effect)
ColumnsSql(columns) ==
  LET user == Sorted(DOMAIN columns)
  IN  << << S_id, "INTEGER" >>, << S_upload_timestamp, "TIMESTAMP" >> >>
      \o [i \in DOMAIN user |-> << safe_col_of[user[i]], SqlType(columns[user[i]]) >>]
      \o << << S_anomaly_alert, "TEXT" >> >>

\* a mutation of CreateTableAccepted: CREATE TABLE IF NOT EXISTS, a statement
\* that succeeds on an existing table
CreateTableIfNotExists(existing, table_name, columns) ==
  LET decl == ColumnsSql(columns)
  IN  \A i, j \in DOMAIN decl : decl[i][1] = decl[j][1] => i = j

\* The database accepts a CREATE TABLE when the table does not exist yet and
\* no column name is declared twice.
CreateTableAccepted(existing, table_name, columns) ==
  LET decl == ColumnsSql(columns)
  IN  /\ table_name \notin existing
      /\ \A i, j \in DOMAIN decl : decl[i][1] = decl[j][1] => i = j

\* the table create_dynamic_table creates: column name -> SQL type, no rows
NewTable(columns) ==
  LET decl == ColumnsSql(columns)
  IN  [columns |-> [c \in {decl[i][1] : i \in DOMAIN decl} |->
                      decl[CHOOSE i \in DOMAIN decl : decl[i][1] = c][2]],
       rows |-> << >>]

\* ------------------------------------------------------------- row loading

Bool(b) == [k |-> "bool", n |-> IF b THEN 1 ELSE 0, d |-> 1, s |-> ""]

\* a value the database could not store (the INSERT statement fails)
Rejected == [k |-> "rejected", n |-> 0, d |-> 1, s |-> ""]

\* the point in time a parsed cell denotes: the two dates of date_words, or
\* the given day of the current month
DateOf(v) == IF v.k = "num" THEN 2 + v.n ELSE IF v.s = "2024-01-01" THEN 1 ELSE 2

\* a mutation of CellLiteral: the value of a BOOLEAN column quoted like text
CellLiteralQuotedBoolean(raw, col_type) ==
  LET value == Stripped(raw)
      escaped_value == IF value.k = "txt" THEN Txt(EscapeWord(value.s)) ELSE value
  IN  IF value.k = "txt" /\ value.s \in null_tokens THEN [form |-> "null", v |-> NaN]
      ELSE IF col_type \in {"TIMESTAMP", "DATE"}
           THEN IF ParsesDate(value)
                THEN [form |-> "quoted", v |-> Ts(DateOf(value))]
                ELSE [form |-> "quoted", v |-> escaped_value]
      ELSE IF col_type \in {"INTEGER", "FLOAT", "DOUBLE PRECISION"}
           THEN [form |-> "bare", v |-> escaped_value]
      ELSE [form |-> "quoted", v |-> escaped_value]

\* The SQL literal process_csv_upload builds for one cell from the header's
\* inferred type: NULL for the null tokens; for TIMESTAMP/DATE the quoted
\* canonical timestamp when the value parses and the quoted raw string when
\* it does not; the bare string for INTEGER/FLOAT/BOOLEAN; the quoted string
\* otherwise.
CellLiteral(raw, col_type) ==
  LET value == Stripped(raw)
      escaped_value == IF value.k = "txt" THEN Txt(EscapeWord(value.s)) ELSE value
  IN  IF value.k = "txt" /\ value.s \in null_tokens THEN [form |-> "null", v |-> NaN]
      ELSE IF col_type \in {"TIMESTAMP", "DATE"}
           THEN IF ParsesDate(value)
                THEN [form |-> "quoted", v |-> Ts(DateOf(value))]
                ELSE [form |-> "quoted", v |-> escaped_value]
      ELSE IF col_type \in {"INTEGER", "FLOAT", "DOUBLE PRECISION"}
           THEN [form |-> "bare", v |-> escaped_value]
      ELSE IF col_type = "BOOLEAN" THEN [form |-> "bare", v |-> escaped_value]
      ELSE [form |-> "quoted", v |-> escaped_value]

\* What the database stores for a literal in a column of type sql_type, or
\* Rejected: a bare numeral fits a numeric or text column, the bare words
\* true and false fit a BOOLEAN column and any other bare word is no value;
\* a quoted string is converted by the column type's input function.
StoredLiteral(literal, sql_type) ==
  LET v == literal.v
  IN  IF literal.form = "null" THEN NaN
      ELSE IF literal.form = "bare"
           THEN IF v.k = "num" /\ sql_type \in {"DOUBLE PRECISION", "INTEGER", "TEXT"}
                THEN v
                ELSE IF v.k = "txt" /\ LowerWord(v.s) \in {"true", "false"}
                        /\ sql_type = "BOOLEAN"
                THEN Bool(LowerWord(v.s) = "true")
                ELSE Rejected
      ELSE IF v.k = "ts"
           THEN IF sql_type \in {"TIMESTAMP", "DATE", "TEXT"} THEN v ELSE Rejected
      ELSE IF v.k = "num"
           THEN IF sql_type \in {"DOUBLE PRECISION", "INTEGER", "TEXT"} THEN v
                ELSE IF sql_type = "BOOLEAN" /\ v.n \in {0, 1} /\ v.d = 1
                THEN Bool(v.n = 1)
                ELSE Rejected
      ELSE IF sql_type = "TEXT" THEN Txt(UnescapeWord(v.s))
      ELSE IF sql_type = "BOOLEAN" /\ LowerWord(v.s) \in bool_words
           THEN Bool(LowerWord(v.s) \in {"true", "yes", "y"})
      ELSE IF sql_type \in {"TIMESTAMP", "DATE"} /\ v.s \in date_words
           THEN Ts(DateOf(v))
      ELSE Rejected

\* what one cell stores in its column
StoredValue(value, col_type, sql_type) ==
  StoredLiteral(CellLiteral(value, col_type), sql_type)

\* a mutation of InsertedRow: the anomaly_alert column declared DEFAULT 'GREEN'
InsertedRowDefaultGreen(table, columns_info, fieldnames, csv_row, serial, now) ==
  LET columns == << S_upload_timestamp >> \o fieldnames
      safe_columns == [i \in DOMAIN columns |-> loader_col_of[columns[i]]]
      header_of(c) == fieldnames[(CHOOSE i \in DOMAIN safe_columns :
                                    i > 1 /\ safe_columns[i] = c) - 1]
      written == {safe_columns[i] : i \in 2..Len(safe_columns)}
      stored(c) ==
        IF c \in written
        THEN StoredValue(csv_row[header_of(c)], columns_info[header_of(c)],
                         table.columns[c])
        ELSE IF c = S_id THEN Num(serial)
        ELSE IF c = S_upload_timestamp THEN Ts(now)
        ELSE IF c = S_anomaly_alert THEN Txt("GREEN")
        ELSE NaN
  IN  IF \E i \in DOMAIN fieldnames : csv_row[fieldnames[i]] = Missing
      THEN [ok |-> FALSE, row |-> << >>]
      ELSE IF \/ \E i, j \in DOMAIN safe_columns : i # j /\ safe_columns[i] = safe_columns[j]
              \/ \E i \in DOMAIN safe_columns : safe_columns[i] \notin DOMAIN table.columns
      THEN [ok |-> FALSE, row |-> << >>]
      ELSE IF \E c \in written : stored(c) = Rejected
      THEN [ok |-> FALSE, row |-> << >>]
      ELSE IF stored(S_id).k # "num" THEN [ok |-> FALSE, row |-> << >>]
      ELSE [ok |-> TRUE, row |-> [c \in DOMAIN table.columns |-> stored(c)]]

\* The row one INSERT statement of process_csv_upload stores ([ok |-> TRUE,
\* row |-> the row]), or [ok |-> FALSE] when the database rejects the
\* statement: the statement names upload_timestamp and then one column per
\* header, and it is rejected when a column is named twice, when a column
\* does not exist, or when a literal does not fit its column. A Missing cell
\* stops the loop before the statement is built (None has no strip()).
\* serial is the next value of the table's id sequence.
InsertedRow(table, columns_info, fieldnames, csv_row, serial, now) ==
  LET columns == << S_upload_timestamp >> \o fieldnames
      safe_columns == [i \in DOMAIN columns |-> loader_col_of[columns[i]]]
      header_of(c) == fieldnames[(CHOOSE i \in DOMAIN safe_columns :
                                    i > 1 /\ safe_columns[i] = c) - 1]
      written == {safe_columns[i] : i \in 2..Len(safe_columns)}
      stored(c) ==
        IF c \in written
        THEN StoredValue(csv_row[header_of(c)], columns_info[header_of(c)],
                         table.columns[c])
        ELSE IF c = S_id THEN Num(serial)
        ELSE IF c = S_upload_timestamp THEN Ts(now)
        ELSE NaN
  IN  IF \E i \in DOMAIN fieldnames : csv_row[fieldnames[i]] = Missing
      THEN [ok |-> FALSE, row |-> << >>]
      ELSE IF \/ \E i, j \in DOMAIN safe_columns : i # j /\ safe_columns[i] = safe_columns[j]
              \/ \E i \in DOMAIN safe_columns : safe_columns[i] \notin DOMAIN table.columns
      THEN [ok |-> FALSE, row |-> << >>]
      ELSE IF \E c \in written : stored(c) = Rejected
      THEN [ok |-> FALSE, row |-> << >>]
      ELSE IF stored(S_id).k # "num" THEN [ok |-> FALSE, row |-> << >>]
      ELSE [ok |-> TRUE, row |-> [c \in DOMAIN table.columns |-> stored(c)]]

\* a mutation of LoadRows: the loop stops after the first row
LoadRowsFirstOnly(table, columns_info, fieldnames, rows, done, now) ==
  LET r == InsertedRow(table, columns_info, fieldnames, rows[1], Len(done) + 1, now)
  IN  IF r.ok THEN [ok |-> TRUE, rows |-> Append(done, r.row)]
      ELSE [ok |-> FALSE, rows |-> << >>]

\* the rows of the new table after the insert loop ([ok |-> TRUE, rows |->
\* ...]), or [ok |-> FALSE] when one INSERT fails: the exception leaves the
\* loop and nothing of the load is committed
RECURSIVE LoadRows(_, _, _, _, _, _)
LoadRows(table, columns_info, fieldnames, rows, done, now) ==
  IF Len(rows) = 0 THEN [ok |-> TRUE, rows |-> done]
  ELSE LET r == InsertedRow(table, columns_info, fieldnames, rows[1],
                            Len(done) + 1, now)
       IN  IF ~r.ok THEN [ok |-> FALSE, rows |-> << >>]
           ELSE IF \E i \in DOMAIN done : done[i][S_id] = r.row[S_id]
           THEN [ok |-> FALSE, rows |-> << >>]
           ELSE LoadRows(table, columns_info, fieldnames, Tail(rows),
                         Append(done, r.row), now)

\* ------------------------------------------------------------ unified view

S_source_filename == << "s", "o", "u", "r", "c", "e", "_", "f", "i", "l", "e", "n", "a", "m", "e" >>

S_source_table == << "s", "o", "u", "r", "c", "e", "_", "t", "a", "b", "l", "e" >>

S_source_upload_time == << "s", "o", "u", "r", "c", "e", "_", "u", "p", "l", "o", "a", "d", "_", "t", "i", "m", "e" >>

S_filename == << "f", "i", "l", "e", "n", "a", "m", "e" >>

S_table_name == << "t", "a", "b", "l", "e", "_", "n", "a", "m", "e" >>

\* the value standing for "no such object" (None, no view, no result)
None == [kind |-> "none"]

\* safe_cols of one metadata entry: the sanitised header names and the three
\* implicit columns
TableColumns(metadata) ==
  {safe_col_of[col_name] : col_name \in DOMAIN metadata.columns_info}
    \cup {S_id, S_upload_timestamp, S_anomaly_alert}

\* all_columns
AllColumns(metadata_list) ==
  UNION {TableColumns(metadata_list[i]) : i \in DOMAIN metadata_list}

\* is_numeric_col
is_numeric_col(col) == \E pattern \in numeric_patterns : Contains(Lower(col), pattern)

\* is_numeric_col on every column name, computed once
is_numeric_of == [c \in ColumnNames |-> is_numeric_col(c)]

\* a mutation of SelectParts: the columns a table lacks are left out of its
\* branch instead of being padded with NULL
SelectPartsUnpadded(metadata, sorted_columns) ==
  << [kind |-> "literal", col |-> S_filename, alias |-> S_source_filename],
     [kind |-> "literal", col |-> S_table_name, alias |-> S_source_table],
     [kind |-> "literal", col |-> S_upload_timestamp, alias |-> S_source_upload_time] >>
  \o LET own == SelectSeq(sorted_columns, LAMBDA c : c \in TableColumns(metadata))
     IN  [j \in DOMAIN own |->
            IF is_numeric_of[own[j]]
            THEN [kind |-> "cast", col |-> own[j], alias |-> own[j]]
            ELSE [kind |-> "column", col |-> own[j], alias |-> own[j]]]

\* select_parts of one table's branch: the three provenance literals, then
\* one expression per column of the global list
SelectParts(metadata, sorted_columns) ==
  << [kind |-> "literal", col |-> S_filename, alias |-> S_source_filename],
     [kind |-> "literal", col |-> S_table_name, alias |-> S_source_table],
     [kind |-> "literal", col |-> S_upload_timestamp, alias |-> S_source_upload_time] >>
  \o [j \in DOMAIN sorted_columns |->
        LET col == sorted_columns[j]
        IN  IF col \in TableColumns(metadata)
            THEN IF is_numeric_of[col]
                 THEN [kind |-> "cast", col |-> col, alias |-> col]
                 ELSE [kind |-> "column", col |-> col, alias |-> col]
            ELSE [kind |-> "null", col |-> col, alias |-> col]]

\* The CREATE VIEW statement create_unified_view builds from the metadata it
\* read: the snapshot, the global sorted column list and one SELECT per
\* metadata entry.
ViewSql(metadata_list) ==
  LET sorted_columns == Sorted(AllColumns(metadata_list))
  IN  [kind |-> "view",
       metadata_list |-> metadata_list,
       sorted_columns |-> sorted_columns,
       union_queries |->
         [i \in DOMAIN metadata_list |->
            [table_name |-> metadata_list[i].table_name,
             filename |-> metadata_list[i].filename,
             select_parts |-> SelectParts(metadata_list[i], sorted_columns)]]]

\* The type the database gives one select expression over a table, "unknown"
\* for a bare NULL, "error" when the expression is rejected (the column does
\* not exist, or its type has no cast to DOUBLE PRECISION).
PartType(table, part) ==
  CASE part.kind = "literal" -> "TEXT"
    [] part.kind = "null" -> "unknown"
    [] part.col \notin DOMAIN table.columns -> "error"
    [] part.kind = "cast" ->
         IF table.columns[part.col] \in {"DOUBLE PRECISION", "INTEGER", "TEXT"}
         THEN "DOUBLE PRECISION"
         ELSE "error"
    [] OTHER -> table.columns[part.col]

\* The database resolves a chain of UNION ALL pairwise from the left: two
\* unknown inputs give text, an unknown input takes the other's type, and
\* two known types must be equal or both numeric.
UnionType(a, b) ==
  IF a = "error" \/ b = "error" THEN "error"
  ELSE IF a = "unknown" /\ b = "unknown" THEN "TEXT"
  ELSE IF a = "unknown" THEN b
  ELSE IF b = "unknown" THEN a
  ELSE IF a = b THEN a
  ELSE IF {a, b} \subseteq {"INTEGER", "DOUBLE PRECISION"} THEN "DOUBLE PRECISION"
  ELSE "error"

RECURSIVE FoldUnion(_, _)
FoldUnion(acc, types) ==
  IF Len(types) = 0 THEN acc ELSE FoldUnion(UnionType(acc, types[1]), Tail(types))

\* the column types of the view a statement defines over the current tables,
\* "error" marking a column on which the statement is rejected
ViewColumnTypes(db_tables, sql) ==
  LET q == sql.union_queries
      width == Len(q[1].select_parts)
      type_of(i, j) ==
        IF q[i].table_name \notin DOMAIN db_tables \/ j > Len(q[i].select_parts)
        THEN "error"
        ELSE PartType(db_tables[q[i].table_name], q[i].select_parts[j])
  IN  [j \in 1..width |->
         IF \E i \in DOMAIN q : Len(q[i].select_parts) # width THEN "error"
         ELSE FoldUnion(type_of(1, j), [i \in 1..(Len(q) - 1) |-> type_of(i + 1, j)])]

\* the database accepts the CREATE VIEW statement
ViewAccepted(db_tables, sql) ==
  LET types == ViewColumnTypes(db_tables, sql)
  IN  \A j \in DOMAIN types : types[j] # "error"

\* The view create_unified_view leaves behind: unchanged when no table is
\* registered (early return) or when the statement is rejected (the DROP and
\* the CREATE are rolled back together), the new definition otherwise.
create_unified_view(db_metadata, db_tables, old_view) ==
  IF Len(db_metadata) = 0 THEN old_view
  ELSE IF ViewAccepted(db_tables, ViewSql(db_metadata)) THEN ViewSql(db_metadata)
  ELSE old_view

\* DROP TABLE ... CASCADE drops the view when one of its branches selects
\* from the table
ViewAfterDrop(old_view, table_name) ==
  IF old_view # None
     /\ \E i \in DOMAIN old_view.union_queries :
          old_view.union_queries[i].table_name = table_name
  THEN None
  ELSE old_view

\* ------------------------------------------------------------------ state

VARIABLES
  clock,      \* the wall clock in milliseconds, as datetime.now() reads it
  tables,     \* the dynamic tables of the database: table_name -> [columns, rows]
  metadata,   \* the csv_files_metadata table: a sequence of CSVFileMetadata
  view,       \* csv_data_unified_view as the database holds it, or None
  view_sql,   \* the last CREATE VIEW statement create_unified_view built, or None
  history,    \* the anomaly_detections table: a sequence of AnomalyDetection
  model,      \* AnomalyDetectionService.model, or None
  scaler,     \* AnomalyDetectionService.scaler, or None
  result,     \* what the last detect_and_update call returned, or None
  response,   \* the last HTTP response of the upload / delete / refresh endpoints
  sev_row,    \* the row handed to determine_severity (severity specification)
  sev_out,    \* what determine_severity returned for sev_row, or "none"
  pending,    \* per worker, where its call of create_unified_view stands
  call,       \* the argument of the function a function specification applies
  ret         \* what that function returned for call, or None

vars ==
  << clock, tables, metadata, view, view_sql, history, model, scaler, result,
     response, sev_row, sev_out, pending, call, ret >>

\* ---------------------------------------------------------------- bounds

\* the clock stops at MaxClock
MaxClock == 2

\* at most MaxTables metadata entries at a time
MaxTables == 3

\* at most MaxHistory anomaly_detections rows
MaxHistory == 4

\* the requests in flight at a time: one per worker
MaxWorkers == 2

Workers == 1..MaxWorkers

\* a worker that is not inside create_unified_view
Idle == [pc |-> "idle", op |-> "none", snapshot |-> << >>]

\* ----------------------------------------------------------------- upload

\* What upload_csv / process_csv_upload do with one file at clock reading
\* now, as the state they leave and the response they give.
UploadOutcome(db_tables, db_metadata, db_view, db_view_sql, csv, now) ==
  LET unchanged(status) ==
        [tables |-> db_tables, metadata |-> db_metadata, view |-> db_view,
         view_sql |-> db_view_sql,
         response |-> [op |-> "upload", status |-> status]]
      columns_info == ColumnsInfo(csv)
      table_name == sanitize_table_name(csv.filename, now)
      created == NewTable(columns_info)
      loaded == LoadRows(created, columns_info, csv.fieldnames, csv.rows, << >>, now)
      entry == [filename |-> csv.filename,
                table_name |-> table_name,
                upload_timestamp |-> now,
                record_count |-> Len(csv.rows),
                columns_info |-> columns_info]
      new_tables == [t \in DOMAIN db_tables \cup {table_name} |->
                       IF t = table_name
                       THEN [columns |-> created.columns, rows |-> loaded.rows]
                       ELSE db_tables[t]]
      new_metadata == Append(db_metadata, entry)
  IN  IF Len(csv.filename) = 0 \/ ~EndsWith(csv.filename, S_dot_csv)
      THEN unchanged(400)
      ELSE IF Len(csv.fieldnames) = 0 \/ Len(csv.rows) = 0 THEN unchanged(400)
      ELSE IF ~CreateTableAccepted(DOMAIN db_tables, table_name, columns_info)
      THEN unchanged(500)
      ELSE IF ~loaded.ok
      THEN [unchanged(500) EXCEPT
              !.tables = [t \in DOMAIN db_tables \cup {table_name} |->
                            IF t = table_name THEN created ELSE db_tables[t]]]
      ELSE [tables |-> new_tables,
            metadata |-> new_metadata,
            view |-> create_unified_view(new_metadata, new_tables, db_view),
            view_sql |-> ViewSql(new_metadata),
            response |-> [op |-> "upload", status |-> 200]]

\* POST /upload-csv/
Upload(csv) ==
  /\ Len(metadata) < MaxTables
  /\ \E out \in {UploadOutcome(tables, metadata, view, view_sql, csv, clock)} :
         /\ tables' = out.tables
         /\ metadata' = out.metadata
         /\ view' = out.view
         /\ view_sql' = out.view_sql
         /\ response' = out.response
  /\ UNCHANGED << clock, history, model, scaler, result, sev_row, sev_out, pending, call, ret >>

\* DELETE /csv-data/{filename}
Delete(filename) ==
  LET found == {i \in DOMAIN metadata : metadata[i].filename = filename}
  IN  IF found = {}
      THEN /\ response' = [op |-> "delete", status |-> 404]
           /\ UNCHANGED << clock, tables, metadata, view, view_sql, history,
                           model, scaler, result, sev_row, sev_out, pending, call, ret >>
      ELSE \E first \in {i \in found : \A j \in found : i <= j} :
           \E dropped \in {metadata[first].table_name} :
           \E new_tables \in {[t \in DOMAIN tables \ {dropped} |-> tables[t]]} :
           \E new_metadata \in {SelectSeq(metadata, LAMBDA m : m.table_name # dropped)} :
               /\ tables' = new_tables
               /\ metadata' = new_metadata
               /\ view' = create_unified_view(new_metadata, new_tables,
                                              ViewAfterDrop(view, dropped))
               /\ view_sql' = IF Len(new_metadata) = 0 THEN view_sql
                              ELSE ViewSql(new_metadata)
               /\ response' = [op |-> "delete", status |-> 200]
               /\ UNCHANGED << clock, history, model, scaler, result,
                               sev_row, sev_out, pending, call, ret >>

\* GET /grafana/refresh-unified-view
Refresh ==
  /\ view' = create_unified_view(metadata, tables, view)
  /\ view_sql' = IF Len(metadata) = 0 THEN view_sql ELSE ViewSql(metadata)
  /\ response' = [op |-> "refresh", status |-> 200]
  /\ UNCHANGED << clock, tables, metadata, history, model, scaler, result,
                  sev_row, sev_out, pending, call, ret >>

\* time passes
Tick ==
  /\ clock < MaxClock
  /\ clock' = clock + 1
  /\ UNCHANGED << tables, metadata, view, view_sql, history, model, scaler,
                  result, response, sev_row, sev_out, pending, call, ret >>

\* ------------------------------------------------------ feature engineering

\* pd.DataFrame(rows, columns=columns) on the rows a SELECT * returned: a
\* frame [columns, rows, object], object being the columns of dtype object
\* (a TEXT column, or a column without a single value: all None)
DataFrame(table) ==
  [columns |-> DOMAIN table.columns,
   rows |-> table.rows,
   object |-> {c \in DOMAIN table.columns :
                 \/ table.columns[c] = "TEXT"
                 \/ \A i \in DOMAIN table.rows : table.rows[i][c].k = "nan"}]

\* df.rename(columns={old_col: new_col})
RenameColumn(df, old_col, new_col) ==
  IF old_col \notin df.columns \/ old_col = new_col THEN df
  ELSE LET new_columns == (df.columns \ {old_col}) \cup {new_col}
       IN  [columns |-> new_columns,
            rows |-> [i \in DOMAIN df.rows |->
                        [c \in new_columns |->
                           IF c = new_col THEN df.rows[i][old_col]
                           ELSE df.rows[i][c]]],
            object |-> IF old_col \in df.object
                       THEN (df.object \ {old_col}) \cup {new_col}
                       ELSE df.object \ {new_col}]

\* the loop over column_mapping.items()
RECURSIVE RenameAll(_, _)
RenameAll(df, mapping) ==
  IF Len(mapping) = 0 THEN df
  ELSE RenameAll(RenameColumn(df, mapping[1][1], mapping[1][2]), Tail(mapping))

\* df[name] = values, values[i] computed from the columns operands of row i:
\* the result has dtype object when an operand has
WithColumn(df, name, operands, values) ==
  [columns |-> df.columns \cup {name},
   rows |-> [i \in DOMAIN df.rows |->
               [c \in df.columns \cup {name} |->
                  IF c = name THEN values[i] ELSE df.rows[i][c]]],
   object |-> IF operands \cap df.object # {}
              THEN df.object \cup {name}
              ELSE df.object \ {name}]

\* the default CO2 factor, 0.5
CO2_FACTOR == Rat(1, 2)

\* df["Energy_per_kg"] = df["Energy_kWh"] / df["OutputWeight_kg"]
AddEnergyPerKg(df) ==
  IF S_Energy_kWh \in df.columns /\ S_OutputWeight_kg \in df.columns
  THEN WithColumn(df, S_Energy_per_kg, {S_Energy_kWh, S_OutputWeight_kg},
         [i \in DOMAIN df.rows |->
            Div(df.rows[i][S_Energy_kWh], df.rows[i][S_OutputWeight_kg])])
  ELSE df

\* df["Yield_loss_pct"] = (input - output) / input * 100
AddYieldLossPct(df) ==
  IF S_InputWeight_kg \in df.columns /\ S_OutputWeight_kg \in df.columns
  THEN WithColumn(df, S_Yield_loss_pct, {S_InputWeight_kg, S_OutputWeight_kg},
         [i \in DOMAIN df.rows |->
            Mul(Div(Sub(df.rows[i][S_InputWeight_kg], df.rows[i][S_OutputWeight_kg]),
                    df.rows[i][S_InputWeight_kg]),
                Num(100))])
  ELSE df

\* df["CO2_per_kg"] = energy * factor / output, the factor being the table's
\* kg_co2_per_kwh column or CO2_FACTOR
AddCO2PerKg(df) ==
  IF S_Energy_kWh \in df.columns /\ S_OutputWeight_kg \in df.columns
  THEN IF S_kg_co2_per_kwh \in df.columns
       THEN WithColumn(df, S_CO2_per_kg,
              {S_Energy_kWh, S_kg_co2_per_kwh, S_OutputWeight_kg},
              [i \in DOMAIN df.rows |->
                 Div(Mul(df.rows[i][S_Energy_kWh], df.rows[i][S_kg_co2_per_kwh]),
                     df.rows[i][S_OutputWeight_kg])])
       ELSE WithColumn(df, S_CO2_per_kg, {S_Energy_kWh, S_OutputWeight_kg},
              [i \in DOMAIN df.rows |->
                 Div(Mul(df.rows[i][S_Energy_kWh], CO2_FACTOR),
                     df.rows[i][S_OutputWeight_kg])])
  ELSE df

\* df["Energy_x_Temp"] = df["Energy_kWh"] * df["RoomTemp_C"]
AddEnergyXTemp(df) ==
  IF S_Energy_kWh \in df.columns /\ S_RoomTemp_C \in df.columns
  THEN WithColumn(df, S_Energy_x_Temp, {S_Energy_kWh, S_RoomTemp_C},
         [i \in DOMAIN df.rows |->
            Mul(df.rows[i][S_Energy_kWh], df.rows[i][S_RoomTemp_C])])
  ELSE df

\* FeatureEngineer.calculate_basic_features followed by the final
\* replace([inf, -inf], nan) of engineer_features (Div yields NaN for it)
calculate_basic_features(df) ==
  AddEnergyXTemp(AddCO2PerKg(AddYieldLossPct(AddEnergyPerKg(
    RenameAll(df, column_mapping)))))

\* AnomalyDetectionService.calculate_features: the enhanced path and the
\* fallback compute the six required features by the same formulas
calculate_features(df) == calculate_basic_features(df)

\* ---------------------------------------------------------- model loading

\* AnomalyDetectionService._load_model over the two artifact files, each
\* [state |-> "missing" | "corrupt" | "ok", obj |-> the pickled object]:
\* a file that cannot be read unsets both attributes.
LoadedService(model_file, scaler_file) ==
  IF model_file.state = "corrupt" THEN [model |-> None, scaler |-> None]
  ELSE IF scaler_file.state = "corrupt" THEN [model |-> None, scaler |-> None]
  ELSE [model |-> IF model_file.state = "ok" THEN model_file.obj ELSE None,
        scaler |-> IF scaler_file.state = "ok" THEN scaler_file.obj ELSE None]

\* scaler.transform on one feature value: the scaler artifact is a shift by
\* its fitted mean
Scaled(the_scaler, v) == IF the_scaler # None THEN Sub(v, Num(the_scaler.mean)) ELSE v

\* model.predict on one row of (scaled) features: the model artifact flags
\* the rows whose feature model.feature exceeds model.cut; -1 is an outlier
Predict(the_model, the_scaler, row) ==
  IF GT(Scaled(the_scaler, row[the_model.feature]), the_model.cut) THEN 0 - 1 ELSE 1

\* ---------------------------------------------------------------- scoring

\* a return value of detect_and_update; table_read records whether the call
\* issued its SELECT on the table, history_write what it logged of the
\* history write: "saved", "failed" or, when it never got there, "none"
Returned(status, reason, missing, details, table_read) ==
  [status |-> status, reason |-> reason, missing |-> missing,
   anomalies |-> details.RED + details.AMBER, details |-> details,
   table_read |-> table_read, history_write |-> "none", table_name |-> None]

NoDetails == [RED |-> 0, AMBER |-> 0, GREEN |-> 0]

\* the AnomalyDetection entry built for one RED/AMBER row; source_id is the
\* id of the row it was built from
AnomalyEntry(row, table_name, now) ==
  [batch_id |-> RowGet(row, S_batchid, Txt("unknown")),
   timestamp |-> IF NotNull(row[S_upload_timestamp]) THEN row[S_upload_timestamp]
                 ELSE Ts(now),
   is_anomaly |-> TRUE,
   severity |-> row[S_severity].s,
   table_name |-> table_name,
   energy_kwh |-> row[S_Energy_kWh],
   room_temp_c |-> row[S_RoomTemp_C],
   source_id |-> row[S_id]]

\* a mutation of ValidRow: only Energy_kWh is tested for NaN
ValidRowEnergyOnly(row) == row[S_Energy_kWh].k = "num"

\* valid_mask on one row: no NaN among the required features
ValidRow(row) ==
  \A j \in DOMAIN required_features : row[required_features[j]].k = "num"

\* a mutation of IsAnomaly: every scored row is historized
IsAnomalyAny(row) == row[S_severity].s \in {"RED", "AMBER", "GREEN"}

\* df_valid['severity'].isin(['RED', 'AMBER']) on one row
IsAnomaly(row) == row[S_severity].s \in {"RED", "AMBER"}

\* a mutation of HistoryCommit: the entries added before the failure persist
HistoryCommitPartial(db_history, entries, fault) ==
  IF fault = "history" /\ Len(entries) > 0 THEN Append(db_history, entries[1])
  ELSE db_history \o entries

\* the history table after the db.add loop and its commit: all entries of
\* the run, or none of them when the write fails and is rolled back
HistoryCommit(db_history, entries, fault) ==
  IF fault = "history" THEN db_history ELSE db_history \o entries

\* one row of df_valid: the row with the model's anomaly_flag and the
\* severity determine_severity gives it
ScoredRow(the_model, the_scaler, row) ==
  LET flag == Num(Predict(the_model, the_scaler, row))
  IN  [c \in DOMAIN row \cup {S_anomaly_flag, S_severity} |->
         IF c = S_severity
         THEN Txt(determine_severity(
                [k \in DOMAIN row \cup {S_anomaly_flag} |->
                   IF k = S_anomaly_flag THEN flag ELSE row[k]]))
         ELSE IF c = S_anomaly_flag THEN flag
         ELSE row[c]]

\* the updates dictionary: per severity the ids of the scored rows, a row
\* without a truthy id left out
Updates(df_valid) ==
  [sev \in {"RED", "AMBER", "GREEN"} |->
     {df_valid[i][S_id] : i \in {j \in DOMAIN df_valid :
         /\ df_valid[j][S_id].k = "num"
         /\ df_valid[j][S_id].n # 0
         /\ df_valid[j][S_severity].s = sev}}]

\* the rows of the table after UPDATE ... SET anomaly_alert = sev WHERE id IN
\* (ids), one statement per severity
UpdatedRows(rows, updates) ==
  [i \in DOMAIN rows |->
     IF \E sev \in DOMAIN updates : rows[i][S_id] \in updates[sev]
     THEN [rows[i] EXCEPT ![S_anomaly_alert] =
             Txt(CHOOSE sev \in DOMAIN updates : rows[i][S_id] \in updates[sev])]
     ELSE rows[i]]

\* a mutation of DetectScored: every UPDATE statement committed on its own,
\* so the RED group stays applied when a later statement fails
DetectScoredAutocommit(db_tables, db_history, table_name, fault, now, df_valid, updates) ==
  LET anomalies == SelectSeq(df_valid, IsAnomaly)
      entries == [i \in DOMAIN anomalies |-> AnomalyEntry(anomalies[i], table_name, now)]
      details == [sev \in DOMAIN updates |-> Cardinality(updates[sev])]
  IN  IF fault = "update"
      THEN [tables |-> [db_tables EXCEPT ![table_name].rows =
                          UpdatedRows(db_tables[table_name].rows,
                                      [sev \in {"RED"} |-> updates[sev]])],
            history |-> db_history,
            result |-> Returned("error", "update", << >>, NoDetails, TRUE)]
      ELSE [tables |-> [db_tables EXCEPT ![table_name].rows =
                          UpdatedRows(db_tables[table_name].rows, updates)],
            history |-> HistoryCommit(db_history, entries, fault),
            result |-> [Returned("success", "", << >>, details, TRUE)
                          EXCEPT !.history_write =
                            IF fault = "history" THEN "failed" ELSE "saved"]]

\* a mutation of DetectScored: the run shares the upload's uncommitted
\* transaction, so its rollback takes the loaded rows with it
DetectScoredUncommitted(db_tables, db_history, table_name, fault, now, df_valid, updates) ==
  LET anomalies == SelectSeq(df_valid, IsAnomaly)
      entries == [i \in DOMAIN anomalies |-> AnomalyEntry(anomalies[i], table_name, now)]
      details == [sev \in DOMAIN updates |-> Cardinality(updates[sev])]
  IN  IF fault = "update"
      THEN [tables |-> [db_tables EXCEPT ![table_name].rows = << >>],
            history |-> db_history,
            result |-> Returned("error", "update", << >>, NoDetails, TRUE)]
      ELSE [tables |-> [db_tables EXCEPT ![table_name].rows =
                          UpdatedRows(db_tables[table_name].rows, updates)],
            history |-> HistoryCommit(db_history, entries, fault),
            result |-> [Returned("success", "", << >>, details, TRUE)
                          EXCEPT !.history_write =
                            IF fault = "history" THEN "failed" ELSE "saved"]]

\* detect_and_update from the batch update on: the UPDATE statements and
\* their commit, the history write and the returned counts
DetectScored(db_tables, db_history, table_name, fault, now, df_valid, updates) ==
  LET anomalies == SelectSeq(df_valid, IsAnomaly)
      entries == [i \in DOMAIN anomalies |-> AnomalyEntry(anomalies[i], table_name, now)]
      details == [sev \in DOMAIN updates |-> Cardinality(updates[sev])]
  IN  IF fault = "update"
      THEN [tables |-> db_tables, history |-> db_history,
            result |-> Returned("error", "update", << >>, NoDetails, TRUE)]
      ELSE [tables |-> [db_tables EXCEPT ![table_name].rows =
                          UpdatedRows(db_tables[table_name].rows, updates)],
            history |-> HistoryCommit(db_history, entries, fault),
            result |-> [Returned("success", "", << >>, details, TRUE)
                          EXCEPT !.history_write =
                            IF fault = "history" THEN "failed" ELSE "saved"]]

\* df_valid: the rows of df_calc that pass valid_mask, scored
ValidScored(the_model, the_scaler, df_calc) ==
  LET valid_rows == SelectSeq(df_calc.rows, ValidRow)
  IN  [i \in DOMAIN valid_rows |-> ScoredRow(the_model, the_scaler, valid_rows[i])]

\* detect_and_update from the feature check on. np.isnan has no loop for
\* dtype object: with a required feature of that dtype the call raises
\* TypeError, which nothing in detect_and_update catches (status "raised":
\* the exception reaches the caller).
DetectFrame(db_tables, db_history, the_model, the_scaler, table_name, fault, now, df_calc) ==
  LET same(r) == [tables |-> db_tables, history |-> db_history, result |-> r]
      missing == SelectSeq(required_features, LAMBDA col : col \notin df_calc.columns)
  IN  IF Len(missing) > 0
      THEN same(Returned("skipped", "missing_columns", missing, NoDetails, TRUE))
      ELSE IF \E j \in DOMAIN required_features : required_features[j] \in df_calc.object
      THEN same(Returned("raised", "TypeError", << >>, NoDetails, TRUE))
      ELSE IF \A i \in DOMAIN df_calc.rows : ~ValidRow(df_calc.rows[i])
      THEN same(Returned("skipped", "no_valid_data_rows", << >>, NoDetails, TRUE))
      ELSE DetectScored(db_tables, db_history, table_name, fault, now,
                        ValidScored(the_model, the_scaler, df_calc),
                        Updates(ValidScored(the_model, the_scaler, df_calc)))

\* AnomalyDetectionService.detect_and_update on one table: the tables and the
\* history it leaves and the value it returns. fault names the database
\* call that fails in this run: "none", "read" (the SELECT), "update" (an
\* UPDATE or its commit) or "history" (the history commit).
DetectOutcome(db_tables, db_history, the_model, the_scaler, table_name, fault, now) ==
  LET same(r) == [tables |-> db_tables, history |-> db_history, result |-> r]
  IN  IF the_model = None
      THEN same(Returned("skipped", "model_not_loaded", << >>, NoDetails, FALSE))
      ELSE IF fault = "read" \/ table_name \notin DOMAIN db_tables
      THEN same(Returned("error", "read", << >>, NoDetails, TRUE))
      ELSE IF Len(db_tables[table_name].rows) = 0
      THEN same(Returned("skipped", "no_data", << >>, NoDetails, TRUE))
      ELSE DetectFrame(db_tables, db_history, the_model, the_scaler, table_name,
                       fault, now, calculate_features(DataFrame(db_tables[table_name])))

\* detect_and_update(table_name, db), run by the background task of an
\* upload or by any later trigger
Detect(table_name, fault) ==
  /\ Len(history) < MaxHistory
  /\ \E out \in {DetectOutcome(tables, history, model, scaler, table_name, fault, clock)} :
         /\ tables' = out.tables
         /\ history' = out.history
         /\ result' = [out.result EXCEPT !.table_name = table_name]
  /\ UNCHANGED << clock, metadata, view, view_sql, model, scaler, response,
                  sev_row, sev_out, pending, call, ret >>

Faults == {"none", "read", "update", "history"}

\* ------------------------------------------------------------------ inputs

\* one CSV row over BatchHeaders
BatchRow(energy, output_kg, input_kg, temp) ==
  [h \in Range(BatchHeaders) |->
     CASE h = H_energy -> energy
       [] h = S_OutputWeight_kg -> output_kg
       [] h = S_InputWeight_kg -> input_kg
       [] OTHER -> temp]

\* the artifact files on disk when the service is constructed
ModelFiles ==
  { [state |-> "missing", obj |-> None],
    [state |-> "corrupt", obj |-> None],
    [state |-> "ok", obj |-> [kind |-> "model", feature |-> S_RoomTemp_C, cut |-> 25]] }

ScalerFiles ==
  { [state |-> "missing", obj |-> None],
    [state |-> "corrupt", obj |-> None],
    [state |-> "ok", obj |-> [kind |-> "scaler", mean |-> 8]] }

\* the uploads of the lifecycle specification
Files ==
  { [filename |-> << "a", ".", "c", "s", "v" >>,
     fieldnames |-> << H_batch_no >> \o BatchHeaders,
     rows |-> << [h \in Range(BatchHeaders) \cup {H_batch_no} |->
                    IF h = H_batch_no THEN Txt("B1")
                    ELSE BatchRow(Num(1600), Num(10), Num(10), Num(20))[h]],
                 [h \in Range(BatchHeaders) \cup {H_batch_no} |->
                    IF h = H_batch_no THEN Txt("B2")
                    ELSE BatchRow(Num(100), Num(10), Num(10), Num(30))[h]] >>],
    [filename |-> << "b", ".", "c", "s", "v" >>,
     fieldnames |-> << H_batch_no_, H_notes >>,
     rows |-> << (H_batch_no_ :> Num(7)) @@ (H_notes :> Txt("n/a")) >>],
    [filename |-> << "c", ".", "c", "s", "v" >>,
     fieldnames |-> << H_notes, H_temp_time >>,
     rows |-> << (H_notes :> Txt("n/a")) @@ (H_temp_time :> Txt("2024-01-01")) >>],
    [filename |-> << "d", ".", "c", "s", "v" >>,
     fieldnames |-> << H_notes, H_weight >>,
     rows |-> << (H_notes :> Txt("n/a")) @@ (H_weight :> Num(12)) >>],
    [filename |-> << "e", ".", "c", "s", "v" >>,
     fieldnames |-> << H_notes >>,
     rows |-> << (H_notes :> Txt("n/a")) >>] }

Filenames == {f.filename : f \in Files}

\* --------------------------------------------- specification: file lifecycle

NoTables == [t \in {} |-> None]

\* the database before the first request, no request in flight
EmptyDatabase ==
  /\ clock = 0
  /\ tables = NoTables
  /\ metadata = << >>
  /\ view = None
  /\ view_sql = None
  /\ history = << >>
  /\ result = None
  /\ response = None
  /\ pending = [w \in Workers |-> Idle]

\* The state after construction: an empty database and the service holding
\* whatever _load_model made of the artifact files.
Constructed(model_file, scaler_file) ==
  /\ EmptyDatabase
  /\ model = LoadedService(model_file, scaler_file).model
  /\ scaler = LoadedService(model_file, scaler_file).scaler
  /\ sev_row = << >>
  /\ sev_out = "none"
  /\ call = None
  /\ ret = None

\* uploads, deletions and refreshes over the files of Files, with both
\* artifacts in place
Init ==
  \E model_file \in ModelFiles, scaler_file \in ScalerFiles :
    /\ model_file.state = "ok"
    /\ scaler_file.state = "ok"
    /\ Constructed(model_file, scaler_file)

Next ==
  \/ \E csv \in Files : Upload(csv)
  \/ \E filename \in Filenames : Delete(filename)
  \/ Refresh
  \/ Tick

Spec == Init /\ [][Next]_vars

\* C8: in every reachable state the columns of csv_data_unified_view, the
\* three provenance columns aside, are the union of the sanitised columns of
\* the registered tables, the implicit columns included (a view that does not
\* exist has no column).
C8_ViewColumnsAreUnion ==
  (IF view = None THEN {} ELSE Range(view.sorted_columns)) = AllColumns(metadata)

\* C9: the view definition a rebuild produces has one SELECT branch per
\* registered table, each made of the three provenance columns followed by
\* one expression per column of the global sorted column list, in that
\* order: the table's own column when it has it, cast exactly when the name
\* contains a numeric keyword, and NULL under the column's name when it lacks
\* it; all branches have the same width and the same column names.
C9_BranchStructure ==
  Len(metadata) > 0 =>
    /\ view_sql # None
    /\ Range(view_sql.sorted_columns) = AllColumns(metadata)
    /\ \A j \in 1..(Len(view_sql.sorted_columns) - 1) :
         StrLess(view_sql.sorted_columns[j], view_sql.sorted_columns[j + 1])
    /\ Len(view_sql.union_queries) = Len(metadata)
    /\ \A i \in DOMAIN metadata :
         LET parts == view_sql.union_queries[i].select_parts
         IN  /\ view_sql.union_queries[i].table_name = metadata[i].table_name
             /\ Len(parts) = 3 + Len(view_sql.sorted_columns)
             /\ << parts[1].kind, parts[2].kind, parts[3].kind >>
                  = << "literal", "literal", "literal" >>
             /\ << parts[1].alias, parts[2].alias, parts[3].alias >>
                  = << S_source_filename, S_source_table, S_source_upload_time >>
             /\ \A j \in DOMAIN view_sql.sorted_columns :
                  LET col == view_sql.sorted_columns[j]
                  IN  /\ parts[3 + j].alias = col
                      /\ parts[3 + j].col = col
                      /\ parts[3 + j].kind =
                           IF col \notin TableColumns(metadata[i]) THEN "null"
                           ELSE IF \E pattern \in numeric_patterns :
                                     Contains(Lower(col), pattern)
                                THEN "cast"
                                ELSE "column"

\* a rebuild over two tables has produced a definition with a NULL padding,
\* a cast column and a column passed through
C9_Witness ==
  /\ Len(metadata) = 2
  /\ view_sql # None
  /\ \E i \in DOMAIN view_sql.union_queries :
       LET parts == view_sql.union_queries[i].select_parts
       IN  /\ \E j \in DOMAIN parts : parts[j].kind = "null"
           /\ \E j \in DOMAIN parts : parts[j].kind = "cast"
           /\ \E j \in DOMAIN parts : parts[j].kind = "column"

\* C10: a rebuild over any registered tables succeeds: whenever a table is
\* registered, the view exists with the definition the last rebuild built.
C10_RebuildNeverFails ==
  Len(metadata) > 0 => view = view_sql

\* ------------------------------------------- specification: detection runs

\* a batch-records file has at most MaxRows rows
MaxRows == 2

\* the rows of the batch-records files: energy, output weight, input weight
\* and room temperature as the CSV gives them (Txt("") an empty cell)
BatchRows ==
  { BatchRow(Num(1600), Num(10), Num(10), Num(20)),
    BatchRow(Num(100), Num(10), Num(10), Num(40)),
    BatchRow(Num(100), Num(10), Num(10), Num(30)),
    BatchRow(Num(100), Num(10), Num(10), Num(20)),
    BatchRow(Txt(""), Num(10), Num(10), Num(20)),
    BatchRow(Num(100), Num(0), Num(10), Num(20)),
    BatchRow(Num(100), Num(10), Num(12), Txt("")),
    BatchRow(Num(100), Num(10), Num(12), Num(20)),
    BatchRow(Num(120), Num(10), Num(10), Num(20)) }

S_batch_csv == << "b", "a", "t", "c", "h", ".", "c", "s", "v" >>

\* the batch-records files: every sequence of 1..MaxRows rows under the four
\* batch headers, and the same without the room temperature column
BatchFiles ==
  UNION { { [filename |-> S_batch_csv,
             fieldnames |-> fieldnames,
             rows |-> [i \in DOMAIN rows |->
                         [h \in Range(fieldnames) |-> rows[i][h]]]] :
              rows \in UNION {[1..n -> BatchRows] : n \in 1..MaxRows} } :
          fieldnames \in {BatchHeaders, SubSeq(BatchHeaders, 1, 3)} }

InitDetect ==
  \E model_file \in ModelFiles, scaler_file \in ScalerFiles :
    Constructed(model_file, scaler_file)

\* one upload into the empty database, then any number of detection runs on
\* its table, each with any one database call failing or none
NextDetect ==
  \/ \E csv \in BatchFiles : tables = NoTables /\ Upload(csv)
  \/ \E table_name \in DOMAIN tables, fault \in Faults : Detect(table_name, fault)

SpecDetect == InitDetect /\ [][NextDetect]_vars

\* the features the scorer computes for the rows of table t
FeaturesOf(t) == calculate_features(DataFrame(tables[t]))

\* row i of table t has NaN in one of the six required features
HasNaN(t, i) ==
  \E j \in DOMAIN required_features :
    \/ required_features[j] \notin FeaturesOf(t).columns
    \/ FeaturesOf(t).rows[i][required_features[j]].k # "num"

\* the severity of row i of table t under the loaded model and scaler
ExpectedSeverity(t, i) ==
  determine_severity(
    [k \in FeaturesOf(t).columns \cup {S_anomaly_flag} |->
       IF k = S_anomaly_flag
       THEN Num(Predict(model, scaler, FeaturesOf(t).rows[i]))
       ELSE FeaturesOf(t).rows[i][k]])

\* the history records a step appends
Appended == SubSeq(history', Len(history) + 1, Len(history'))

\* the rows of table t a step's run set to RED or AMBER
SetAnomalous(t) ==
  {i \in DOMAIN tables[t].rows :
     /\ ~HasNaN(t, i)
     /\ tables'[t].rows[i][S_anomaly_alert].s \in {"RED", "AMBER"}}

\* C2: a detection run leaves the anomaly_alert of every row with NaN in a
\* required feature as it was and appends no history record for it, and it
\* still scores every other row of the table: with the model loaded and no
\* database call failing before the update, a table with a row free of NaN
\* is scored, each such row getting the severity of its features.
C2_NaNRowsUntouched ==
  [][\A t \in DOMAIN tables :
       result'.table_name = t =>
         /\ \A i \in DOMAIN tables[t].rows :
              HasNaN(t, i) =>
                /\ tables'[t].rows[i][S_anomaly_alert] = tables[t].rows[i][S_anomaly_alert]
                /\ \A k \in DOMAIN Appended :
                     Appended[k].source_id # tables[t].rows[i][S_id]
         /\ result'.status = "success" =>
              \A i \in DOMAIN tables[t].rows :
                ~HasNaN(t, i) =>
                  tables'[t].rows[i][S_anomaly_alert] = Txt(ExpectedSeverity(t, i))
         /\ ( /\ model # None
              /\ result'.status # "error"
              /\ \E i \in DOMAIN tables[t].rows : ~HasNaN(t, i) )
            => result'.status = "success"
    ]_vars

\* a successful run has scored one row of a table and left the NULL alert of
\* another row, which has NaN among its features
C2_Witness ==
  /\ result # None
  /\ result.status = "success"
  /\ \E t \in DOMAIN tables :
       \E i, j \in DOMAIN tables[t].rows :
         /\ HasNaN(t, i)
         /\ tables[t].rows[i][S_anomaly_alert] = NaN
         /\ ~HasNaN(t, j)
         /\ tables[t].rows[j][S_anomaly_alert].k = "txt"

\* C3 as stated: after a run that returns success, the history records it
\* appended are exactly one per row it set to RED or AMBER, each with that
\* severity and the table's name, none for a GREEN row, and the returned
\* anomalies count is the number of records appended.
C3_HistoryMatchesAlerts ==
  [][\A t \in DOMAIN tables :
       (result'.table_name = t /\ result'.status = "success") =>
         /\ Len(Appended) = Cardinality(SetAnomalous(t))
         /\ \A i \in SetAnomalous(t) :
              \E k \in DOMAIN Appended :
                /\ Appended[k].source_id = tables[t].rows[i][S_id]
                /\ Appended[k].severity = tables'[t].rows[i][S_anomaly_alert].s
                /\ Appended[k].table_name = t
         /\ result'.anomalies = Len(Appended)
    ]_vars

\* C3 amended: after a run that returns success, the returned anomalies count
\* is the number of rows the run set to RED or AMBER; when the history write
\* went through, the records appended are exactly one per such row, each with
\* that severity and the table's name, and none for a GREEN row; when the
\* history write failed, no record is appended.
C3_HistoryMatchesAlertsUnlessFailed ==
  [][\A t \in DOMAIN tables :
       (result'.table_name = t /\ result'.status = "success") =>
         /\ result'.anomalies = Cardinality(SetAnomalous(t))
         /\ result'.history_write = "saved" =>
              /\ Len(Appended) = Cardinality(SetAnomalous(t))
              /\ \A i \in SetAnomalous(t) :
                   \E k \in DOMAIN Appended :
                     /\ Appended[k].source_id = tables[t].rows[i][S_id]
                     /\ Appended[k].severity = tables'[t].rows[i][S_anomaly_alert].s
                     /\ Appended[k].table_name = t
         /\ result'.history_write # "saved" => Appended = << >>
    ]_vars

\* a successful run with its history saved has left one history record for a
\* table with one anomalous row and one GREEN row
C3_Witness ==
  /\ result # None
  /\ result.status = "success"
  /\ result.history_write = "saved"
  /\ result.anomalies = 1
  /\ Len(history) = 1
  /\ \E t \in DOMAIN tables :
       \E i, j \in DOMAIN tables[t].rows :
         /\ tables[t].rows[i][S_anomaly_alert] = Txt("GREEN")
         /\ tables[t].rows[j][S_anomaly_alert] = Txt(history[1].severity)
         /\ tables[t].rows[j][S_id] = history[1].source_id

\* C4: a successful run that follows a successful run on the same table, the
\* data and the model unchanged, leaves every row's anomaly_alert as the
\* first run left it and returns the same per-severity counts.
C4_RerunSameSeverity ==
  [][\A t \in DOMAIN tables :
       ( /\ result # None
         /\ result.status = "success"
         /\ result.table_name = t
         /\ result'.table_name = t
         /\ result'.status = "success" ) =>
         /\ \A i \in DOMAIN tables[t].rows :
              tables'[t].rows[i][S_anomaly_alert] = tables[t].rows[i][S_anomaly_alert]
         /\ result'.details = result.details
    ]_vars

\* two successful runs have scored a table with an AMBER row: the history
\* holds two records of that row
C4_Witness ==
  /\ result # None
  /\ result.status = "success"
  /\ \E k1, k2 \in DOMAIN history :
       /\ k1 < k2
       /\ history[k1].source_id = history[k2].source_id
       /\ history[k1].severity = "AMBER"
       /\ history[k2].severity = "AMBER"

\* C5: however often detection runs on unchanged data, the history holds at
\* most one record per table and RED/AMBER row.
C5_NoDuplicateHistory ==
  \A k1, k2 \in DOMAIN history :
    ( /\ history[k1].table_name = history[k2].table_name
      /\ history[k1].source_id = history[k2].source_id ) => k1 = k2

\* C6: when the history write of a run fails, the run still returns success
\* with the per-severity counts, the anomaly_alert values it wrote are in the
\* table and no history record of the run persists.
C6_HistoryFailureKeepsAlerts ==
  [][\A t \in DOMAIN tables :
       (result'.table_name = t /\ result'.history_write = "failed") =>
         /\ result'.status = "success"
         /\ history' = history
         /\ \A i \in DOMAIN tables[t].rows :
              ~HasNaN(t, i) =>
                tables'[t].rows[i][S_anomaly_alert] = Txt(ExpectedSeverity(t, i))
         /\ \A sev \in {"RED", "AMBER", "GREEN"} :
              result'.details[sev] =
                Cardinality({i \in DOMAIN tables[t].rows :
                               ~HasNaN(t, i) /\ ExpectedSeverity(t, i) = sev})
    ]_vars

\* a run whose history write failed has returned success for a table it set
\* a row of to RED, and the history is empty
C6_Witness ==
  /\ result # None
  /\ result.history_write = "failed"
  /\ result.details["RED"] > 0
  /\ history = << >>
  /\ \E t \in DOMAIN tables :
       \E i \in DOMAIN tables[t].rows : tables[t].rows[i][S_anomaly_alert] = Txt("RED")

\* C7: a run returns the first skip condition that applies, in the order
\* model not loaded, table empty, required feature column missing, no row
\* without NaN, as status skipped with the matching reason (and the missing
\* columns); a skipped run changes no table and no history record, and with
\* the model unset the table is not read. Runs whose SELECT fails are left
\* aside.
C7_SkipOrder ==
  [][\A t \in DOMAIN tables :
       (result'.table_name = t /\ result'.status # "error") =>
         LET missing ==
               SelectSeq(required_features, LAMBDA col : col \notin FeaturesOf(t).columns)
             expected ==
               IF model = None THEN "model_not_loaded"
               ELSE IF Len(tables[t].rows) = 0 THEN "no_data"
               ELSE IF Len(missing) > 0 THEN "missing_columns"
               ELSE IF \A i \in DOMAIN tables[t].rows : HasNaN(t, i)
                    THEN "no_valid_data_rows"
               ELSE "none"
         IN  /\ expected # "none" =>
                  /\ result'.status = "skipped"
                  /\ result'.reason = expected
                  /\ expected = "missing_columns" => result'.missing = missing
             /\ result'.status = "skipped" =>
                  /\ result'.reason = expected
                  /\ tables' = tables
                  /\ history' = history
             /\ model = None => ~result'.table_read
    ]_vars

\* ------------------------------------- specification: severity classification

\* the values of one hard-rule feature around its threshold: below, equal,
\* just above and above
Around(limit) == {Num(limit - 1), Num(limit), Rat(limit * 100 + 1, 100), Num(limit + 1)}

\* the scored rows determine_severity is applied to: the four hard-rule
\* features and the model's flag (-1 outlier, 1 inlier)
ScoredRows ==
  { [c \in {S_Energy_kWh, S_Energy_per_kg, S_Yield_loss_pct, S_CO2_per_kg,
             S_anomaly_flag} |->
       CASE c = S_Energy_kWh -> e
         [] c = S_Energy_per_kg -> p
         [] c = S_Yield_loss_pct -> y
         [] c = S_CO2_per_kg -> o
         [] OTHER -> Num(f)] :
      e \in Around(ENERGY_KWH_LIMIT), p \in Around(ENERGY_PER_KG_LIMIT),
      y \in Around(YIELD_LOSS_PCT_LIMIT), o \in Around(CO2_PER_KG_LIMIT),
      f \in {0 - 1, 1} }

InitSeverity ==
  /\ EmptyDatabase
  /\ model = None
  /\ scaler = None
  /\ sev_row \in ScoredRows
  /\ sev_out = "none"
  /\ call = None
  /\ ret = None

\* df_valid.apply(self.determine_severity, axis=1) on one row
Classify ==
  /\ sev_out = "none"
  /\ sev_out' = determine_severity(sev_row)
  /\ UNCHANGED << clock, tables, metadata, view, view_sql, history, model,
                  scaler, result, response, sev_row, pending, call, ret >>

NextSeverity == Classify

SpecSeverity == InitSeverity /\ [][NextSeverity]_vars

\* C1: determine_severity returns RED exactly when one of the four hard-rule
\* features is strictly greater than its threshold (a value equal to the
\* threshold does not trigger), whatever the model flag; otherwise AMBER when
\* the flag is -1; otherwise GREEN.
C1_SeverityRule ==
  sev_out # "none" =>
    LET above(c, limit) == sev_row[c].n > limit * sev_row[c].d
        hard == \/ above(S_Energy_kWh, 1500)
                \/ above(S_Energy_per_kg, 15)
                \/ above(S_Yield_loss_pct, 10)
                \/ above(S_CO2_per_kg, 6)
    IN  /\ hard => sev_out = "RED"
        /\ ~hard /\ sev_row[S_anomaly_flag] = Num(0 - 1) => sev_out = "AMBER"
        /\ ~hard /\ sev_row[S_anomaly_flag] # Num(0 - 1) => sev_out = "GREEN"

\* a row with every hard-rule feature equal to its threshold and the outlier
\* flag has been classified AMBER
C1_Witness ==
  /\ sev_out = "AMBER"
  /\ sev_row[S_Energy_kWh] = Num(1500)
  /\ sev_row[S_Energy_per_kg] = Num(15)
  /\ sev_row[S_Yield_loss_pct] = Num(10)
  /\ sev_row[S_CO2_per_kg] = Num(6)

\* ------------------------------------ specification: concurrent requests

\* Requests run in MaxWorkers workers at once (threads of the pool, or
\* processes). Every database transaction of a request is one step; between
\* the commit that ends a request's own changes and the metadata read of
\* create_unified_view, and between that read and the DROP/CREATE VIEW
\* transaction, the other workers run.

\* at most MaxLive metadata entries at a time in the concurrent specification
MaxLive == 2

\* the uploads of the concurrent specification: two files whose tables the
\* view builder can always union
ConcurrentFiles ==
  {f \in Files : f.filename \in {<< "d", ".", "c", "s", "v" >>, << "e", ".", "c", "s", "v" >>}}

\* upload_csv up to the commit of the metadata entry (process_csv_upload
\* through db.commit()), create_unified_view not yet entered
StartUpload(w, csv) ==
  /\ pending[w] = Idle
  /\ Len(metadata) < MaxLive
  /\ \E out \in {UploadOutcome(tables, metadata, view, view_sql, csv, clock)} :
         /\ tables' = out.tables
         /\ metadata' = out.metadata
         /\ IF out.response.status = 200
            THEN /\ pending' = [pending EXCEPT ![w] = [Idle EXCEPT !.pc = "start", !.op = "upload"]]
                 /\ UNCHANGED response
            ELSE /\ response' = out.response
                 /\ UNCHANGED pending
  /\ UNCHANGED << clock, view, view_sql, history, model, scaler, result, sev_row, sev_out, call, ret >>

\* delete_csv_data up to its commit: the table dropped (the view with it
\* when it selects from the table) and the metadata entry deleted
StartDelete(w, filename) ==
  /\ pending[w] = Idle
  /\ LET found == {i \in DOMAIN metadata : metadata[i].filename = filename}
     IN  IF found = {}
         THEN /\ response' = [op |-> "delete", status |-> 404]
              /\ UNCHANGED << tables, metadata, view, pending >>
         ELSE \E first \in {i \in found : \A j \in found : i <= j} :
              \E dropped \in {metadata[first].table_name} :
                  /\ tables' = [t \in DOMAIN tables \ {dropped} |-> tables[t]]
                  /\ metadata' = SelectSeq(metadata, LAMBDA m : m.table_name # dropped)
                  /\ view' = ViewAfterDrop(view, dropped)
                  /\ pending' = [pending EXCEPT ![w] = [Idle EXCEPT !.pc = "start", !.op = "delete"]]
                  /\ UNCHANGED response
  /\ UNCHANGED << clock, view_sql, history, model, scaler, result, sev_row, sev_out, call, ret >>

\* refresh_unified_view_endpoint entered
StartRefresh(w) ==
  /\ pending[w] = Idle
  /\ pending' = [pending EXCEPT ![w] = [Idle EXCEPT !.pc = "start", !.op = "refresh"]]
  /\ UNCHANGED << clock, tables, metadata, view, view_sql, history, model, scaler,
                  result, response, sev_row, sev_out, call, ret >>

\* create_unified_view reads the metadata (and returns when there is none)
RebuildRead(w) ==
  /\ pending[w].pc = "start"
  /\ IF Len(metadata) = 0
     THEN /\ pending' = [pending EXCEPT ![w] = Idle]
          /\ response' = [op |-> pending[w].op, status |-> 200]
     ELSE /\ pending' = [pending EXCEPT ![w].pc = "read", ![w].snapshot = metadata]
          /\ UNCHANGED response
  /\ UNCHANGED << clock, tables, metadata, view, view_sql, history, model, scaler,
                  result, sev_row, sev_out, call, ret >>

\* create_unified_view drops the view and creates it from the metadata it
\* read, in one transaction; a rejected statement rolls both back
RebuildWrite(w) ==
  /\ pending[w].pc = "read"
  /\ view' = create_unified_view(pending[w].snapshot, tables, view)
  /\ view_sql' = ViewSql(pending[w].snapshot)
  /\ pending' = [pending EXCEPT ![w] = Idle]
  /\ response' = [op |-> pending[w].op, status |-> 200]
  /\ UNCHANGED << clock, tables, metadata, history, model, scaler, result,
                  sev_row, sev_out, call, ret >>

NextConcurrent ==
  \/ \E w \in Workers, csv \in ConcurrentFiles : StartUpload(w, csv)
  \/ \E w \in Workers, filename \in {f.filename : f \in ConcurrentFiles} :
       StartDelete(w, filename)
  \/ \E w \in Workers : StartRefresh(w)
  \/ \E w \in Workers : RebuildRead(w)
  \/ \E w \in Workers : RebuildWrite(w)
  \/ Tick

SpecConcurrent == Init /\ [][NextConcurrent]_vars

\* once no request is in flight, the view covers exactly the registered tables
ViewCoversRegistered ==
  ((\A w \in Workers : pending[w] = Idle) /\ Len(metadata) > 0) =>
    (view # None /\ view.metadata_list = metadata)

\* the view exists whenever a table is registered
ViewNeverMissing == Len(metadata) > 0 => view # None

\* C11: concurrent rebuilds are serialized: once every request in flight has
\* finished, the view is the one built from the metadata as it then stands,
\* and at no moment is the view missing while a table is registered.
C11_RebuildsSerialized == ViewCoversRegistered /\ ViewNeverMissing

\* C12: an upload of a filename that is already registered, by any worker, is
\* given a table name no existing table has, and is registered: it does not
\* fail on a table-name collision.
C12_DistinctTableNames ==
  [][\A w \in Workers, csv \in ConcurrentFiles :
       ( /\ StartUpload(w, csv)
         /\ \E i \in DOMAIN metadata : metadata[i].filename = csv.filename ) =>
         /\ sanitize_table_name(csv.filename, clock) \notin DOMAIN tables
         /\ Len(metadata') = Len(metadata) + 1
         /\ \A i, j \in DOMAIN metadata' :
              metadata'[i].table_name = metadata'[j].table_name => i = j
    ]_vars

\* ------------------------------------------ specification: file ingestion

\* the uploads of the ingestion specification: two files that load (a.csv
\* with two rows, e.csv with one), a file without the .csv extension, an
\* empty file, a file with a header and no data row, and a file whose second
\* data row is shorter than the header
IngestFiles ==
  {f \in Files : f.filename \in {<< "a", ".", "c", "s", "v" >>, << "e", ".", "c", "s", "v" >>}}
  \cup
  { [filename |-> << "n", ".", "t", "x", "t" >>,
     fieldnames |-> << H_notes >>,
     rows |-> << (H_notes :> Txt("n/a")) >>],
    [filename |-> << "g", ".", "c", "s", "v" >>,
     fieldnames |-> << >>,
     rows |-> << >>],
    [filename |-> << "h", ".", "c", "s", "v" >>,
     fieldnames |-> << H_notes >>,
     rows |-> << >>],
    [filename |-> << "s", ".", "c", "s", "v" >>,
     fieldnames |-> << H_notes, H_weight >>,
     rows |-> << (H_notes :> Txt("n/a")) @@ (H_weight :> Num(12)),
                 (H_notes :> Txt("n/a")) @@ (H_weight :> Missing) >>] }

\* uploads of the files of IngestFiles while the database holds fewer than
\* MaxTables tables, and deletions
NextIngest ==
  \/ \E csv \in IngestFiles : Cardinality(DOMAIN tables) < MaxTables /\ Upload(csv)
  \/ \E filename \in {f.filename : f \in IngestFiles} : Delete(filename)
  \/ Tick

SpecIngest == Init /\ [][NextIngest]_vars

\* C13: in every reachable state a dynamic table exists if and only if
\* exactly one metadata entry names it.
C13_TableIffOneEntry ==
  /\ \A t \in DOMAIN tables :
       Cardinality({i \in DOMAIN metadata : metadata[i].table_name = t}) = 1
  /\ \A i \in DOMAIN metadata : metadata[i].table_name \in DOMAIN tables

\* C14: a successful upload of a CSV with N >= 1 data rows registers a new
\* table holding exactly N rows with record_count = N; a table holds rows
\* only together with its metadata entry (one commit), and the record_count
\* of every metadata entry is the row count of its table for as long as the
\* entry exists.
C14_RecordCount ==
  [][/\ \A i \in DOMAIN metadata' :
          /\ metadata'[i].table_name \in DOMAIN tables'
          /\ Len(tables'[metadata'[i].table_name].rows) = metadata'[i].record_count
     /\ \A t \in DOMAIN tables' :
          tables'[t].rows # << >> =>
            \E i \in DOMAIN metadata' : metadata'[i].table_name = t
     /\ \A csv \in IngestFiles :
          ( /\ Cardinality(DOMAIN tables) < MaxTables
            /\ Upload(csv)
            /\ response'.status = 200 ) =>
            /\ Len(csv.rows) >= 1
            /\ Len(metadata') = Len(metadata) + 1
            /\ metadata'[Len(metadata')].table_name \notin DOMAIN tables
            /\ metadata'[Len(metadata')].record_count = Len(csv.rows)
            /\ Len(tables'[metadata'[Len(metadata')].table_name].rows) = Len(csv.rows)
    ]_vars

\* the two-row file has been uploaded: its entry counts two records and its
\* table holds two rows
C14_Witness ==
  \E i \in DOMAIN metadata :
    /\ metadata[i].record_count = 2
    /\ Len(tables[metadata[i].table_name].rows) = 2

\* C15: an upload whose CREATE TABLE fails because the table name is taken is
\* answered with a failure and leaves the tables, the metadata and the view
\* as they were: no row is inserted, no metadata entry is written and no view
\* statement is built.
C15_CreateFailureAborts ==
  [][\A csv \in IngestFiles :
       ( /\ Cardinality(DOMAIN tables) < MaxTables
         /\ Upload(csv)
         /\ EndsWith(csv.filename, S_dot_csv)
         /\ Len(csv.fieldnames) > 0
         /\ Len(csv.rows) > 0
         /\ sanitize_table_name(csv.filename, clock) \in DOMAIN tables ) =>
         /\ response' = [op |-> "upload", status |-> 500]
         /\ tables' = tables
         /\ metadata' = metadata
         /\ view' = view
         /\ view_sql' = view_sql
    ]_vars

\* an upload has failed while every table is registered and one of them was
\* created at this clock reading: the failure was a table-name collision
C15_Witness ==
  /\ response = [op |-> "upload", status |-> 500]
  /\ Cardinality(DOMAIN tables) = Len(metadata)
  /\ \E i \in DOMAIN metadata : metadata[i].upload_timestamp = clock
  /\ \A t \in DOMAIN tables : tables[t].rows # << >>

\* the upload is invalid input: wrong extension, no header, no data row, or
\* a data row shorter than the header
InvalidInput(csv) ==
  \/ ~EndsWith(csv.filename, S_dot_csv)
  \/ Len(csv.fieldnames) = 0
  \/ Len(csv.rows) = 0
  \/ \E i \in DOMAIN csv.rows : \E h \in DOMAIN csv.rows[i] : csv.rows[i][h] = Missing

\* C16: an upload of invalid input is answered with a failure and creates no
\* table, no metadata entry and no change of the view.
C16_RejectedLeavesNothing ==
  [][\A csv \in IngestFiles :
       ( /\ Cardinality(DOMAIN tables) < MaxTables
         /\ Upload(csv)
         /\ InvalidInput(csv) ) =>
         /\ response'.op = "upload"
         /\ response'.status # 200
         /\ tables' = tables
         /\ metadata' = metadata
         /\ view' = view
    ]_vars

\* ------------------------------------- specification: column provisioning

\* the header sets of the provisioning specification: one or two headers,
\* every column inferred TEXT
MaxHeaders == 2

HeaderSets ==
  {S \in SUBSET Headers : Cardinality(S) >= 1 /\ Cardinality(S) <= MaxHeaders}

InitColumns ==
  /\ EmptyDatabase
  /\ model = None
  /\ scaler = None
  /\ sev_row = << >>
  /\ sev_out = "none"
  /\ call \in {[h \in S |-> "TEXT"] : S \in HeaderSets}
  /\ ret = None

\* create_dynamic_table builds the column declarations of its statement
Provision ==
  /\ ret = None
  /\ ret' = ColumnsSql(call)
  /\ UNCHANGED << clock, tables, metadata, view, view_sql, history, model, scaler,
                  result, response, sev_row, sev_out, pending, call >>

NextColumns == Provision

SpecColumns == InitColumns /\ [][NextColumns]_vars

\* C17: every user column the provisioner declares has a name made only of
\* a-z, 0-9 and _, and none has the name of a system column (id,
\* upload_timestamp, anomaly_alert).
C17_UserColumnsSanitised ==
  ret # None =>
    \A i \in 3..(Len(ret) - 1) :
      /\ \A j \in DOMAIN ret[i][1] :
           IsLower(ret[i][1][j]) \/ IsDigit(ret[i][1][j]) \/ ret[i][1][j] = "_"
      /\ ret[i][1] \notin {S_id, S_upload_timestamp, S_anomaly_alert}

\* ---------------------------------------- specification: type inference

\* the sample columns of the inference specification: every sequence of at
\* most MaxSamples cells, and the sequences of LongSamples cells made of a
\* date and a word (the date rule reads the first five only)
MaxSamples == 3

LongSamples == 6

SampleCells ==
  { Txt(""), Txt("NULL"), Missing, Num(0), Num(1), Num(2), Rat(3, 2),
    Txt("yes"), Txt("Yes"), Txt("2024-01-01"), Txt("ok") }

SampleColumns ==
  UNION {[1..n -> SampleCells] : n \in 0..MaxSamples}
    \cup [1..LongSamples -> {Txt("2024-01-02"), Txt("ok")}]

H_BatchDate == << "B", "a", "t", "c", "h", "D", "a", "t", "e" >>

SampleNames == {H_notes, H_flag, H_weight, H_temp_time, H_BatchDate}

InitInfer ==
  /\ EmptyDatabase
  /\ model = None
  /\ scaler = None
  /\ sev_row = << >>
  /\ sev_out = "none"
  /\ call \in [col_name : SampleNames, sample_values : SampleColumns]
  /\ ret = None

\* one call of infer_column_type
Infer ==
  /\ ret = None
  /\ ret' = [kind |-> "type",
              type |-> infer_column_type(call.sample_values, call.col_name)]
  /\ UNCHANGED << clock, tables, metadata, view, view_sql, history, model, scaler,
                  result, response, sev_row, sev_out, pending, call >>

NextInfer == Infer

SpecInfer == InitInfer /\ [][NextInfer]_vars

\* the clean values of the call: neither missing nor a null token
CleanOfCall == SelectSeq(call.sample_values, IsCleanValue)

NamedDateOrTime ==
  Contains(Lower(call.col_name), S_date) \/ Contains(Lower(call.col_name), S_time)

S_Batch_Hour == << "B", "a", "t", "c", "h", "_", "H", "o", "u", "r" >>

S_Batch_DayOfWeek == << "B", "a", "t", "c", "h", "_", "D", "a", "y", "O", "f", "W", "e", "e", "k" >>

S_Time_Since_Last_Batch == << "T", "i", "m", "e", "_", "S", "i", "n", "c", "e", "_", "L", "a", "s", "t", "_", "B", "a", "t", "c", "h" >>

S_Energy_kWh_Rolling_Mean == << "E", "n", "e", "r", "g", "y", "_", "k", "W", "h", "_", "R", "o", "l", "l", "i", "n", "g", "_", "M", "e", "a", "n" >>

S_Energy_kWh_Rolling_Std == << "E", "n", "e", "r", "g", "y", "_", "k", "W", "h", "_", "R", "o", "l", "l", "i", "n", "g", "_", "S", "t", "d" >>

S_Yield_loss_pct_Rolling_Mean == << "Y", "i", "e", "l", "d", "_", "l", "o", "s", "s", "_", "p", "c", "t", "_", "R", "o", "l", "l", "i", "n", "g", "_", "M", "e", "a", "n" >>

S_Machine_Batch_Count == << "M", "a", "c", "h", "i", "n", "e", "_", "B", "a", "t", "c", "h", "_", "C", "o", "u", "n", "t" >>

S_ProductionStage_Encoded == << "P", "r", "o", "d", "u", "c", "t", "i", "o", "n", "S", "t", "a", "g", "e", "_", "E", "n", "c", "o", "d", "e", "d" >>

S_Machine_Utilization == << "M", "a", "c", "h", "i", "n", "e", "_", "U", "t", "i", "l", "i", "z", "a", "t", "i", "o", "n" >>

S_MachineName == << "M", "a", "c", "h", "i", "n", "e", "N", "a", "m", "e" >>

S_ProductionStage == << "P", "r", "o", "d", "u", "c", "t", "i", "o", "n", "S", "t", "a", "g", "e" >>

\* FeatureEngineer.get_feature_names
get_feature_names ==
  << S_Energy_kWh, S_Energy_per_kg, S_Yield_loss_pct, S_RoomTemp_C, S_CO2_per_kg,
     S_Energy_x_Temp,
     S_Batch_Hour, S_Batch_DayOfWeek, S_Time_Since_Last_Batch,
     S_Energy_kWh_Rolling_Mean, S_Energy_kWh_Rolling_Std, S_Yield_loss_pct_Rolling_Mean,
     S_Machine_Batch_Count, S_ProductionStage_Encoded, S_Machine_Utilization >>

\* The stages of engineer_features on the column set of the frame (which
\* columns a stage adds depends on the columns alone, not on the rows).

\* calculate_basic_features: the renaming and the four derived columns
BasicColumns(columns) ==
  calculate_basic_features([columns |-> columns, rows |-> << >>, object |-> {}]).columns

\* calculate_temporal_features: the three columns are set from the timestamp
\* column when there is one, as defaults when there is none, and as defaults
\* again by the except branch
TemporalColumns(columns) ==
  columns \cup {S_Batch_Hour, S_Batch_DayOfWeek, S_Time_Since_Last_Batch}

\* calculate_rolling_features: a rolling column only for a column that is
\* there (the except branch tests the same columns)
RollingColumns(columns) ==
  columns
    \cup (IF S_Energy_kWh \in columns
          THEN {S_Energy_kWh_Rolling_Mean, S_Energy_kWh_Rolling_Std} ELSE {})
    \cup (IF S_Yield_loss_pct \in columns THEN {S_Yield_loss_pct_Rolling_Mean} ELSE {})

\* calculate_equipment_features: each of the three columns is computed or
\* defaulted
EquipmentColumns(columns) ==
  columns \cup {S_Machine_Batch_Count, S_ProductionStage_Encoded, S_Machine_Utilization}

\* the columns of the frame engineer_features returns
engineer_features_columns(columns) ==
  EquipmentColumns(RollingColumns(TemporalColumns(BasicColumns(columns))))

\* the source columns a table may or may not have
SourceColumns ==
  { column_mapping[3][1], S_OutputWeight_kg, S_InputWeight_kg, S_RoomTemp_C,
    S_kg_co2_per_kwh, S_upload_timestamp, S_MachineName, S_ProductionStage }

InitFeatures ==
  /\ EmptyDatabase
  /\ model = None
  /\ scaler = None
  /\ sev_row = << >>
  /\ sev_out = "none"
  /\ call \in {[columns |-> {S_id, S_anomaly_alert} \cup S] : S \in SUBSET SourceColumns}
  /\ ret = None

\* one call of engineer_features
Engineer ==
  /\ ret = None
  /\ ret' = [kind |-> "columns", columns |-> engineer_features_columns(call.columns)]
  /\ UNCHANGED << clock, tables, metadata, view, view_sql, history, model, scaler,
                  result, response, sev_row, sev_out, pending, call >>

NextFeatures == Engineer

SpecFeatures == InitFeatures /\ [][NextFeatures]_vars

\* C19: whichever source columns the input table has, the frame
\* engineer_features returns has all 15 columns of get_feature_names.
C19_AllFeatureColumns ==
  ret # None => Range(get_feature_names) \subseteq ret.columns

\* ------------------------------------------- specification: alert column

\* at most MaxAlertTables tables at a time
MaxAlertTables == 2

\* detection runs stop once the history holds MaxAlertHistory entries
MaxAlertHistory == 2

\* the clock of the alert specification stops at MaxAlertClock
MaxAlertClock == 1

\* the uploads of the alert specification: batch records with a row over a
\* hard limit and a row without energy; batch records within the limits;
\* a file whose headers name the alert column; a file without batch columns
AlertFiles ==
  { [filename |-> S_batch_csv,
     fieldnames |-> BatchHeaders,
     rows |-> << BatchRow(Num(1600), Num(10), Num(10), Num(20)),
                 BatchRow(Txt(""), Num(10), Num(10), Num(20)) >>],
    [filename |-> S_batch_csv,
     fieldnames |-> BatchHeaders,
     rows |-> << BatchRow(Num(100), Num(10), Num(10), Num(40)),
                 BatchRow(Num(100), Num(10), Num(10), Num(20)) >>],
    [filename |-> << "q", ".", "c", "s", "v" >>,
     fieldnames |-> << S_anomaly_alert, H_notes >>,
     rows |-> << (S_anomaly_alert :> Txt("RED")) @@ (H_notes :> Txt("n/a")) >>],
    [filename |-> << "r", ".", "c", "s", "v" >>,
     fieldnames |-> << H_Anomaly_Alert, H_notes >>,
     rows |-> << (H_Anomaly_Alert :> Txt("PURPLE")) @@ (H_notes :> Txt("n/a")) >>],
    [filename |-> << "e", ".", "c", "s", "v" >>,
     fieldnames |-> << H_notes >>,
     rows |-> << (H_notes :> Txt("n/a")) >>] }

\* uploads, detection runs (each with any one database call failing or
\* none) and deletes, in any order
NextAlerts ==
  \/ \E csv \in AlertFiles : Cardinality(DOMAIN tables) < MaxAlertTables /\ Upload(csv)
  \/ \E table_name \in DOMAIN tables, fault \in Faults :
       Len(history) < MaxAlertHistory /\ Detect(table_name, fault)
  \/ \E csv \in AlertFiles : Delete(csv.filename)
  \/ clock < MaxAlertClock /\ Tick

SpecAlerts == Init /\ [][NextAlerts]_vars

AlertValues == {NaN, Txt("GREEN"), Txt("AMBER"), Txt("RED")}

\* every alert is NULL, GREEN, AMBER or RED
AlertsInRange ==
  \A t \in DOMAIN tables : \A i \in DOMAIN tables[t].rows :
    tables[t].rows[i][S_anomaly_alert] \in AlertValues

\* a table that appears has only NULL alerts; a table that stays keeps its
\* rows, and an alert of it changes only in a detection run on that table
AlertStep ==
  \A t \in DOMAIN tables' :
    IF t \notin DOMAIN tables
    THEN \A i \in DOMAIN tables'[t].rows : tables'[t].rows[i][S_anomaly_alert] = NaN
    ELSE /\ Len(tables'[t].rows) = Len(tables[t].rows)
         /\ \A i \in DOMAIN tables[t].rows :
              tables'[t].rows[i][S_anomaly_alert] # tables[t].rows[i][S_anomaly_alert]
                => /\ \E fault \in Faults : Detect(t, fault)
                   /\ result'.status = "success"

\* C20: over uploads, detection runs and deletes the anomaly_alert of every
\* row is NULL, GREEN, AMBER or RED; it is NULL when the row is inserted and
\* only a detection run on the row's table changes it.
C20_AlertLifecycle == []AlertsInRange /\ [][AlertStep]_vars

\* a detection run has marked one row RED and left a row it could not score
\* NULL, next to a table no run has touched
C20_Witness ==
  /\ result # None
  /\ result.status = "success"
  /\ \E t \in DOMAIN tables :
       /\ \E i \in DOMAIN tables[t].rows : tables[t].rows[i][S_anomaly_alert] = Txt("RED")
       /\ \E i \in DOMAIN tables[t].rows : tables[t].rows[i][S_anomaly_alert] = NaN
  /\ \E t \in DOMAIN tables :
       \A i \in DOMAIN tables[t].rows : tables[t].rows[i][S_anomaly_alert] = NaN

\* --------------------------------------------- claims on detection errors

\* C21: every call of detect_and_update ends by returning a result whose
\* status is success, skipped or error; no failure inside it reaches the
\* caller as an exception.
C21_AlwaysReturnsStatus ==
  result # None => result.status \in {"success", "skipped", "error"}

\* -------------------------------------- specification: background detection

\* POST /upload-csv/ answered: the whole upload, and on success the
\* background task run_anomaly_detection(metadata.table_name) added for the
\* time after the response
UploadScheduled(w, csv) ==
  /\ pending[w] = Idle
  /\ Cardinality(DOMAIN tables) < MaxAlertTables
  /\ Len(history) < MaxAlertHistory
  /\ \E out \in {UploadOutcome(tables, metadata, view, view_sql, csv, clock)} :
         /\ tables' = out.tables
         /\ metadata' = out.metadata
         /\ view' = out.view
         /\ view_sql' = out.view_sql
         /\ response' = out.response
         /\ IF out.response.status = 200
            THEN pending' = [pending EXCEPT ![w] =
                               [pc |-> "background", op |-> "upload",
                                snapshot |-> << out.metadata[Len(out.metadata)] >>]]
            ELSE UNCHANGED pending
  /\ UNCHANGED << clock, history, model, scaler, result, sev_row, sev_out, call, ret >>

\* run_anomaly_detection: a session of its own, detect_and_update on the
\* table, the result or the exception logged. fault is a fault of
\* detect_and_update, or "session": the task fails before it calls the
\* service (no session, no service)
RunDetection(w, fault) ==
  /\ pending[w].pc = "background"
  /\ pending' = [pending EXCEPT ![w] = Idle]
  /\ IF fault = "session"
     THEN UNCHANGED << tables, history, result >>
     ELSE \E out \in {DetectOutcome(tables, history, model, scaler,
                                     pending[w].snapshot[1].table_name, fault, clock)} :
            /\ tables' = out.tables
            /\ history' = out.history
            /\ result' = [out.result EXCEPT
                            !.table_name = pending[w].snapshot[1].table_name]
  /\ UNCHANGED << clock, metadata, view, view_sql, model, scaler, response,
                  sev_row, sev_out, call, ret >>

\* the uploads of the background specification: the batch records with a row
\* over a hard limit, the file without batch columns and a file the
\* provisioner rejects
BackgroundFiles ==
  {csv \in AlertFiles :
     \/ csv.filename = S_batch_csv /\ csv.rows[1][H_energy] = Num(1600)
     \/ csv.fieldnames = << H_notes >>
     \/ csv.fieldnames[1] = S_anomaly_alert}

\* the background task of worker w runs, with any fault or none
RunTask(w) ==
  \/ RunDetection(w, "session")
  \/ \E fault \in Faults : RunDetection(w, fault)

NextBackground ==
  \/ \E w \in Workers, csv \in BackgroundFiles : UploadScheduled(w, csv)
  \/ \E w \in Workers : RunTask(w)
  \/ \E csv \in BackgroundFiles : Delete(csv.filename)

\* a task added to the response runs once the response is sent
SpecBackground ==
  /\ InitDetect
  /\ [][NextBackground]_vars
  /\ \A w \in Workers : WF_vars(RunTask(w))

\* the task of worker w is added with its upload's rows and entry committed
ScheduledAfterCommit ==
  \A w \in Workers :
    (pending[w].pc = "idle" /\ pending'[w].pc = "background") =>
      LET entry == pending'[w].snapshot[1]
      IN  /\ \E i \in DOMAIN metadata' : metadata'[i] = entry
          /\ entry.table_name \in DOMAIN tables'
          /\ Len(tables'[entry.table_name].rows) = entry.record_count
          /\ entry.record_count > 0
          /\ response' = [op |-> "upload", status |-> 200]

\* a background run changes neither the response nor the metadata, and of
\* the tables nothing but anomaly_alert
FireAndForget ==
  \A w \in Workers :
    (pending[w].pc = "background" /\ pending'[w].pc = "idle") =>
      /\ response' = response
      /\ metadata' = metadata
      /\ DOMAIN tables' = DOMAIN tables
      /\ \A t \in DOMAIN tables :
           /\ tables'[t].columns = tables[t].columns
           /\ Len(tables'[t].rows) = Len(tables[t].rows)
           /\ \A i \in DOMAIN tables[t].rows :
                \A c \in DOMAIN tables[t].columns \ {S_anomaly_alert} :
                  tables'[t].rows[i][c] = tables[t].rows[i][c]

\* C22: detection for an upload is started only after the upload's rows and
\* metadata entry are committed; whatever its outcome it leaves the upload's
\* response, its rows other than anomaly_alert and its metadata entry alone;
\* once started it terminates.
C22_FireAndForget ==
  /\ [][ScheduledAfterCommit /\ FireAndForget]_vars
  /\ \A w \in Workers : (pending[w].pc = "background") ~> (pending[w].pc = "idle")

\* a background run failed in its UPDATE and the upload's table still has its
\* rows, registered, with no alert set
C22_Witness ==
  /\ result # None
  /\ result.status = "error"
  /\ result.reason = "update"
  /\ \A w \in Workers : pending[w] = Idle
  /\ result.table_name \in DOMAIN tables
  /\ Len(tables[result.table_name].rows) = 2
  /\ \E i \in DOMAIN metadata : metadata[i].table_name = result.table_name
  /\ response = [op |-> "upload", status |-> 200]

\* ------------------------------------ specification: reserved header names

\* the uploads of the reserved-header specification: a.csv of the lifecycle
\* files; a header id with descending and with ascending values; a header
\* ID; a header upload_timestamp
ReservedFiles ==
  {f \in Files : f.filename = << "a", ".", "c", "s", "v" >>}
  \cup
  { [filename |-> << "i", ".", "c", "s", "v" >>,
     fieldnames |-> << S_id, H_notes >>,
     rows |-> << (S_id :> Num(2)) @@ (H_notes :> Txt("n/a")),
                 (S_id :> Num(1)) @@ (H_notes :> Txt("ok")) >>],
    [filename |-> << "j", ".", "c", "s", "v" >>,
     fieldnames |-> << S_id >>,
     rows |-> << (S_id :> Num(1)), (S_id :> Num(2)) >>],
    [filename |-> << "k", ".", "c", "s", "v" >>,
     fieldnames |-> << H_ID, H_notes >>,
     rows |-> << (H_ID :> Num(7)) @@ (H_notes :> Txt("n/a")),
                 (H_ID :> Num(3)) @@ (H_notes :> Txt("ok")) >>],
    [filename |-> << "u", ".", "c", "s", "v" >>,
     fieldnames |-> << S_upload_timestamp >>,
     rows |-> << (S_upload_timestamp :> Txt("2024-01-01")) >>] }

NextReserved ==
  \/ \E csv \in ReservedFiles : Cardinality(DOMAIN tables) < MaxTables /\ Upload(csv)
  \/ \E csv \in ReservedFiles : Delete(csv.filename)
  \/ Tick

SpecReserved == Init /\ [][NextReserved]_vars

\* C23: the rows of every table, taken in the order of the CSV's data rows,
\* have strictly increasing ids (the model keeps the rows of a table in the
\* order of their INSERT statements).
C23_IdFollowsCsvOrder ==
  \A t \in DOMAIN tables :
    \A i, j \in DOMAIN tables[t].rows :
      i < j => tables[t].rows[i][S_id].n < tables[t].rows[j][S_id].n

\* ------------------------------------------ specification: cell literals

\* the cells and the inferred column types of the literal specification
LiteralCells ==
  { Txt(""), Txt(" "), Txt("NULL"), Txt(" NULL"), Txt("null"), Txt("None"),
    Num(0), Num(1), Num(12), Num(40), Rat(3, 2),
    Txt("yes"), Txt("TRUE"), Txt("2024-01-01"), Txt("ok"), Txt(" ok "), Txt("it's") }

LiteralTypes == {"TEXT", "FLOAT", "BOOLEAN", "TIMESTAMP"}

InitLiteral ==
  /\ EmptyDatabase
  /\ model = None
  /\ scaler = None
  /\ sev_row = << >>
  /\ sev_out = "none"
  /\ call \in [value : LiteralCells, col_type : LiteralTypes]
  /\ ret = None

\* one pass of the inner loop of process_csv_upload: the literal for a cell
Emit ==
  /\ ret = None
  /\ ret' = [kind |-> "literal", literal |-> CellLiteral(call.value, call.col_type)]
  /\ UNCHANGED << clock, tables, metadata, view, view_sql, history, model, scaler,
                  result, response, sev_row, sev_out, pending, call >>

NextLiteral == Emit

SpecLiteral == InitLiteral /\ [][NextLiteral]_vars

\* the stripped cell of the call is one of the null tokens
CallIsNull ==
  /\ call.value.k = "txt"
  /\ StripWord(call.value.s) \in {"", "NULL", "null", "None"}

\* the stripped cell of the call with its single quotes doubled
CallEscaped ==
  IF call.value.k = "txt"
  THEN Txt(EscapeWord(StripWord(call.value.s)))
  ELSE call.value

\* C24: the literal of a cell is NULL when the stripped value is empty, NULL,
\* null or None, whatever the column type; otherwise, for a TIMESTAMP or
\* DATE column, the quoted canonical timestamp when the value parses as a
\* date and the quoted escaped value when it does not; for a FLOAT, INTEGER
\* or BOOLEAN column the escaped value without quotes; for every other
\* column the escaped value in quotes.
C24_CellLiteralRule ==
  ret # None =>
    /\ CallIsNull => ret.literal.form = "null"
    /\ (~CallIsNull /\ call.col_type \in {"TIMESTAMP", "DATE"}) =>
         /\ ret.literal.form = "quoted"
         /\ ParsesDate(Stripped(call.value)) => ret.literal.v.k = "ts"
         /\ ~ParsesDate(Stripped(call.value)) => ret.literal.v = CallEscaped
    /\ (~CallIsNull /\ call.col_type \in {"FLOAT", "INTEGER", "BOOLEAN"}) =>
         ret.literal = [form |-> "bare", v |-> CallEscaped]
    /\ (~CallIsNull
          /\ call.col_type \notin {"TIMESTAMP", "DATE", "FLOAT", "INTEGER", "BOOLEAN"}) =>
         ret.literal = [form |-> "quoted", v |-> CallEscaped]

\* a cell with a single quote in a TEXT column was emitted quoted with the
\* quote doubled
C24_Witness ==
  /\ ret # None
  /\ call = [value |-> Txt("it's"), col_type |-> "TEXT"]
  /\ ret.literal = [form |-> "quoted", v |-> Txt("it''s")]

\* --------------------------------------------- specification: deletion

\* DELETE /csv-data/{filename} when a database call of the handler fails (the
\* SELECT, the DROP TABLE or the commit): the transaction is rolled back,
\* the DROP TABLE ... CASCADE with it, and the request is answered 500
DeleteFails(filename) ==
  /\ response' = [op |-> "delete", status |-> 500]
  /\ UNCHANGED << clock, tables, metadata, view, view_sql, history, model, scaler,
                  result, sev_row, sev_out, pending, call, ret >>

NextDelete ==
  \/ \E csv \in Files : Upload(csv)
  \/ \E filename \in Filenames : Delete(filename)
  \/ \E filename \in Filenames : DeleteFails(filename)
  \/ Tick

SpecDelete == Init /\ [][NextDelete]_vars

\* the sequence seq without its element i
Without(seq, i) == SubSeq(seq, 1, i - 1) \o SubSeq(seq, i + 1, Len(seq))

\* what a delete request for filename leaves: nothing changed when it is
\* answered 404 or 500; otherwise one entry of that filename gone together
\* with its table, every other entry and table as before, and the view
\* rebuilt over the remaining entries (no view when none remains)
DeleteEffect(filename) ==
  IF response'.status # 200
  THEN /\ tables' = tables
       /\ metadata' = metadata
       /\ response'.status = 404 =>
            ~\E i \in DOMAIN metadata : metadata[i].filename = filename
  ELSE /\ \E i \in DOMAIN metadata :
            /\ metadata[i].filename = filename
            /\ metadata' = Without(metadata, i)
            /\ metadata[i].table_name \in DOMAIN tables
            /\ DOMAIN tables' = DOMAIN tables \ {metadata[i].table_name}
            /\ \A t \in DOMAIN tables' : tables'[t] = tables[t]
       /\ IF Len(metadata') = 0 THEN view' = None
          ELSE view' # None /\ view'.metadata_list = metadata'

\* C25: a delete of filename f removes one entry registered under f with its
\* table, leaves every other entry and table unchanged and rebuilds the view
\* over the remaining tables; when no entry has filename f, or the delete
\* fails, no table and no entry changes.
C25_DeleteFrame ==
  [][\A filename \in Filenames :
       (Delete(filename) \/ DeleteFails(filename)) => DeleteEffect(filename)]_vars

\* ------------------------------------------------ claims on the scorer

\* C26: the scorer never holds a scaler while its model is unset (a load
\* that fails, by a missing or an unreadable artifact, leaves both unset),
\* and no operation after construction changes the model or the scaler.
C26_PairFixed ==
  /\ [](model = None => scaler = None)
  /\ [][model' = model /\ scaler' = scaler]_vars

\* ----------------------------------------- specification: column naming

\* the header rows of the naming specification: one header, or two distinct
\* headers in either order
HeaderRows ==
  {<< h >> : h \in Headers}
    \cup {row \in {<< h1, h2 >> : h1 \in Headers, h2 \in Headers} : row[1] # row[2]}

InitNames ==
  /\ EmptyDatabase
  /\ model = None
  /\ scaler = None
  /\ sev_row = << >>
  /\ sev_out = "none"
  /\ call \in {[fieldnames |-> row] : row \in HeaderRows}
  /\ ret = None

\* the physical column the provisioner declares for header h (the table of
\* a file with that one header: after id and upload_timestamp)
ProvisionerColumn(h) == ColumnsSql([x \in {h} |-> "TEXT"])[3][1]

\* the physical column the loader's INSERT names for header h
LoaderColumn(h) == loader_col_of[h]

\* the physical column the view builder selects for header h
ViewColumn(h) ==
  CHOOSE c \in {safe_col_of[col_name] : col_name \in {h}} : TRUE

\* the three components name the columns of one header row
NameColumns ==
  /\ ret = None
  /\ ret' = [kind |-> "names",
              provisioner |-> [h \in Range(call.fieldnames) |-> ProvisionerColumn(h)],
              loader |-> [h \in Range(call.fieldnames) |-> LoaderColumn(h)],
              view |-> [h \in Range(call.fieldnames) |-> ViewColumn(h)]]
  /\ UNCHANGED << clock, tables, metadata, view, view_sql, history, model, scaler,
                  result, response, sev_row, sev_out, pending, call >>

NextNames == NameColumns

SpecNames == InitNames /\ [][NextNames]_vars

\* C27: for every header, the column the loader writes and the column the
\* view selects are the column the provisioner created for it.
C27_SameColumnEverywhere ==
  ret # None =>
    \A h \in Range(call.fieldnames) :
      /\ ret.loader[h] = ret.provisioner[h]
      /\ ret.view[h] = ret.provisioner[h]

\* C28: two distinct headers of one file are never given the same physical
\* column name.
C28_SanitisationInjective ==
  ret # None =>
    \A h1, h2 \in Range(call.fieldnames) :
      h1 # h2 => ret.provisioner[h1] # ret.provisioner[h2]

\* --------------------------------------------- claims on the batch update

\* a run on table t gets as far as its UPDATE statements
ReachesUpdates(t) ==
  DetectOutcome(tables, history, model, scaler, t, "none", clock).result.status = "success"

\* C29: when an UPDATE statement of a run (or their commit) fails, every
\* anomaly_alert of the table keeps the value it had before the run, no
\* history record is appended and the run returns status error.
C29_UpdatesAtomic ==
  [][\A t \in DOMAIN tables :
       (ReachesUpdates(t) /\ Detect(t, "update")) =>
         /\ result'.status = "error"
         /\ tables' = tables
         /\ history' = history
    ]_vars

\* a run over a table with a RED row and a GREEN row failed in its updates:
\* it returned error, both rows are still NULL and the history is empty
C29_Witness ==
  /\ result # None
  /\ result.status = "error"
  /\ result.reason = "update"
  /\ history = << >>
  /\ result.table_name \in DOMAIN tables
  /\ \E i, j \in DOMAIN tables[result.table_name].rows :
       /\ ~HasNaN(result.table_name, i)
       /\ ~HasNaN(result.table_name, j)
       /\ ExpectedSeverity(result.table_name, i) = "RED"
       /\ ExpectedSeverity(result.table_name, j) = "GREEN"
       /\ tables[result.table_name].rows[i][S_anomaly_alert] = NaN
       /\ tables[result.table_name].rows[j][S_anomaly_alert] = NaN

\* ---------------------------------------- specification: canonical headers

\* the header row with the canonical feature names
CanonicalHeaders == << S_Energy_kWh, S_OutputWeight_kg, S_InputWeight_kg, S_RoomTemp_C >>

\* one CSV row over CanonicalHeaders
CanonicalRow(energy, output_kg, input_kg, temp) ==
  [h \in Range(CanonicalHeaders) |->
     CASE h = S_Energy_kWh -> energy
       [] h = S_OutputWeight_kg -> output_kg
       [] h = S_InputWeight_kg -> input_kg
       [] OTHER -> temp]

\* rows of numeric, non-zero values
CanonicalRows ==
  { CanonicalRow(Num(1600), Num(10), Num(10), Num(20)),
    CanonicalRow(Num(100), Num(10), Num(10), Num(40)),
    CanonicalRow(Num(100), Num(10), Num(12), Num(20)),
    CanonicalRow(Num(120), Num(8), Num(10), Num(30)) }

\* the files with the canonical header row and 1..MaxRows of these rows
CanonicalFiles ==
  { [filename |-> S_batch_csv, fieldnames |-> CanonicalHeaders, rows |-> rows] :
      rows \in UNION {[1..n -> CanonicalRows] : n \in 1..MaxRows} }

\* one upload of a canonical file into the empty database, then detection
\* runs on its table
NextCanonical ==
  \/ \E csv \in CanonicalFiles : tables = NoTables /\ Upload(csv)
  \/ \E table_name \in DOMAIN tables, fault \in Faults : Detect(table_name, fault)

SpecCanonical == InitDetect /\ [][NextCanonical]_vars

\* C30: with a model loaded, a detection run without a database fault on the
\* table of an upload with the canonical headers and numeric non-zero values
\* returns success.
C30_CanonicalHeadersScored ==
  [][\A t \in DOMAIN tables :
       (model # None /\ Detect(t, "none")) => result'.status = "success"]_vars

====
